---- MODULE Spec2Model ----
(***************************************************************************)
(* Model of the content-script translation engine of the Local LLM         *)
(* Translator extension (src/content.js): text extraction, the priority    *)
(* scorer, the node registry, the batched translation run with retry and   *)
(* cancellation, and scroll-driven re-prioritisation.                      *)
(*                                                                         *)
(* The engine is single-threaded: every action below is the code that runs *)
(* between two suspension points (an awaited Translator request or an      *)
(* awaited timer), or one complete message handler.                        *)
(***************************************************************************)
EXTENDS Integers, Sequences, FiniteSets, TLC

(***************************************************************************)
(* Bounds of the model                                                     *)
(***************************************************************************)
MaxNodes == 4        \* largest small page (text nodes in document order)
BigNodes == 11       \* size of the large page (more than one drain batch)
MaxStarts == 2       \* START_TRANSLATION requests accepted in one behaviour
MaxEvents == 3       \* environment events allowed on a small page
BigEvents == 3       \* environment events allowed on the large page
MaxDead == 1         \* text nodes whose reference may go invalid
MaxScroll == 1       \* scroll positions 0..MaxScroll (in steps of ScrollStep pixels)
WatchNodes == 3      \* largest watched page
WatchEvents == 3     \* environment events allowed on a watched page
DownNodes == 2       \* largest page translated while the Translator is out of reach
DownEvents == 2      \* environment events allowed there, failed requests not counted
LiveEvents == 1      \* environment events allowed where termination is checked
AddNodes == 2        \* largest page to which nodes are added in every way
AddEvents == 3       \* environment events allowed there
StrayNodes == 2      \* largest page translated by a Translator that adds entries
StrayEvents == 3     \* environment events allowed there

Runs == {1, 2}       \* invocations of translatePage that may coexist
Watcher == 3         \* the invocation of translatePendingNodes in flight
Procs == Runs \cup {Watcher}

(***************************************************************************)
(* Program constants                                                       *)
(***************************************************************************)
MIN_TEXT_LENGTH == 2
batchSize == 8
retryBatchSize == 4
maxRetries == 2
defaultRetries == 3
backoffBase == 500
SKIP_TAGS == {"SCRIPT", "STYLE", "NOSCRIPT", "IFRAME", "OBJECT", "EMBED",
              "SVG", "CANVAS", "VIDEO", "AUDIO", "CODE", "PRE", "KBD",
              "INPUT", "TEXTAREA", "SELECT", "BUTTON"}

(***************************************************************************)
(* Small arithmetic and sequence helpers                                   *)
(***************************************************************************)
Min(a, b) == IF a < b THEN a ELSE b
Max(a, b) == IF a > b THEN a ELSE b
Abs(a) == IF a < 0 THEN -a ELSE a
\* Math.floor(100 * a / b)
RoundPercent_floor(a, b) == (100 * a) \div b
\* Math.round(100 * a / b) for a >= 0, b > 0 (round half up)
RoundPercent(a, b) == (200 * a + b) \div (2 * b)
Range(s) == {s[i] : i \in 1..Len(s)}
Reverse(s) == [i \in 1..Len(s) |-> s[Len(s) + 1 - i]]
\* Array.prototype.splice(0, k): the removed prefix and what stays
Front(s, k) == SubSeq(s, 1, Min(k, Len(s)))
Rest(s, k) == SubSeq(s, Min(k, Len(s)) + 1, Len(s))
\* Array.prototype.slice(i, i + k), i zero-based
Slice(s, i, k) == SubSeq(s, i + 1, Min(i + k, Len(s)))

(***************************************************************************)
(* Text: a string is a sequence of characters; " " is the only whitespace  *)
(* character of the pages modelled, digits are the only non-letters.       *)
(***************************************************************************)
Letters == {"a", "b", "c", "d", "e", "f", "g", "h", "k", "m", "T"}
IsSpace(c) == c = " "

RECURSIVE LeadingSpace(_)
\* originalText.match(/^\s*/)[0]
LeadingSpace(s) ==
    IF s # <<>> /\ IsSpace(Head(s)) THEN <<Head(s)>> \o LeadingSpace(Tail(s)) ELSE <<>>

\* originalText.match(/\s*$/)[0]
TrailingSpace(s) == Reverse(LeadingSpace(Reverse(s)))

\* String.prototype.trim()
Trim(s) ==
    LET l == Len(LeadingSpace(s))
        t == Len(TrailingSpace(s))
    IN  IF l = Len(s) THEN <<>> ELSE SubSeq(s, l + 1, Len(s) - t)

isTranslatableText(text) ==
    IF text = <<>> THEN FALSE
    ELSE LET trimmed == Trim(text)
         IN  IF Len(trimmed) < MIN_TEXT_LENGTH THEN FALSE
             ELSE \E i \in 1..Len(trimmed) : trimmed[i] \in Letters

(***************************************************************************)
(* State                                                                   *)
(***************************************************************************)
VARIABLES
    domSize,                  \* number of text nodes in the document
    dom,                      \* dom[n]: textContent of text node n
    dead,                     \* nodes the page has removed
    scrollY,                  \* scroll position, in steps of ScrollStep pixels
    scrollListener,           \* the 'scroll' listener is registered on window
    scrollDebounceTimer,      \* the 100ms scroll timer is pending
    textNodeMap,              \* Registry: textNodeMap[id + 1] is the entry of id
    translatedNodeSet,        \* processed-set
    nextId,
    translationInProgress,
    translationCancelled,
    hasTranslationCache,
    isShowingTranslations,
    pendingTranslationQueue,
    autoTranslateEnabled,
    mutationObserver,         \* an observer is connected
    pendingNewNodes,
    autoTranslateDebounceTimer,
    status,                   \* what the status element shows (last showStatus)
    run,                      \* run[r]: locals and position of invocation r of translatePage
    starts,                   \* START_TRANSLATION requests accepted so far
    stub,                     \* what the Translator and the page at hand can do (fixed per behaviour)
    budget,                   \* environment events still allowed
    nodeKind,                 \* nodeKind[n]: the row of the page tables that describes node n
    lastResponse,             \* what the last message handler passed to sendResponse
    emitted,                  \* items emitted by extraction since the last full extraction
    probe                     \* inputs and results of the priority scorer under test

vars == <<domSize, dom, dead, scrollY, scrollListener, scrollDebounceTimer, textNodeMap,
          translatedNodeSet, nextId, translationInProgress, translationCancelled,
          hasTranslationCache, isShowingTranslations, pendingTranslationQueue,
          autoTranslateEnabled, mutationObserver, pendingNewNodes,
          autoTranslateDebounceTimer, status, run, starts, stub, budget, nodeKind,
          lastResponse, emitted, probe>>

\* the removed nodes on which a write throws: a node taken out of the document
\* is written like any other, a node whose document is gone throws on access
Unwritable == IF stub.writesThrow THEN dead ELSE {}

(***************************************************************************)
(* The page.  A text node is a number 1..domSize in document order; its    *)
(* ancestors, geometry and initial text are fixed by the page tables       *)
(* below, its current text (dom) and the scroll position are state.        *)
(***************************************************************************)
El(tag, idTokens, classTokens, role) ==
    [tagName |-> tag, id |-> idTokens, className |-> classTokens, role |-> role,
     isContentEditable |-> FALSE, translate |-> "", display |-> "block",
     visibility |-> "visible"]

Body == El("BODY", {}, {}, "")

\* ancestors of each text node, parent element first
PageAncestors == <<
    <<El("P", {}, {}, ""), El("ARTICLE", {}, {}, ""), Body>>,
    <<El("SCRIPT", {}, {}, ""), Body>>,
    <<El("A", {}, {}, ""), El("NAV", {}, {}, ""), Body>>,
    <<El("H1", {}, {}, ""), El("MAIN", {}, {}, ""), Body>>,
    <<El("SPAN", {}, {}, ""), El("DIV", {}, {"sidebar"}, ""), El("DIV", {"content"}, {}, ""), Body>>,
    <<El("LI", {}, {}, ""), El("UL", {}, {}, ""), Body>>,
    <<El("P", {}, {}, ""), El("DIV", {}, {}, "main"), Body>>,
    <<El("TD", {}, {}, ""), El("TABLE", {}, {}, ""), Body>>,
    <<El("LABEL", {}, {}, ""), El("FOOTER", {}, {}, ""), Body>>,
    <<El("H2", {}, {}, ""), El("ARTICLE", {}, {"post"}, ""), Body>>,
    <<El("DIV", {}, {}, ""), Body>>,
    <<El("BLOCKQUOTE", {}, {}, ""), El("DIV", {}, {}, "complementary"), Body>>,
    <<El("SPAN", {}, {}, ""), El("BUTTON", {}, {}, ""), Body>>,
    <<El("EM", {}, {}, ""), [El("DIV", {}, {}, "") EXCEPT !.translate = "no"], Body>>,
    <<[El("SPAN", {}, {}, "") EXCEPT !.display = "none"], El("DIV", {}, {}, ""), Body>> >>

\* textContent of each text node when the page is loaded
PageText == <<
    <<" ", "a", "b", " ">>,
    <<"c", "c">>,
    <<"c", "d">>,
    <<"e", "f", " ">>,
    <<" ", "g", "h">>,
    <<"k", "m">>,
    <<"a", "c", "e">>,
    <<"b", "d", "f">>,
    <<"g", "k">>,
    <<"h", "m", " ">>,
    <<"a", "d">>,
    <<"b", "e">>,
    <<"c", "e", " ">>,
    <<"d", "f">>,
    <<"f", "g">> >>

\* left edge and width of the parent element's box, in CSS pixels
PageLeft == <<100, 100, 0, 100, 900, 100, 100, 100, 0, 100, 100, 900, 100, 100, 100>>
PageWidth == <<800, 800, 100, 800, 100, 800, 800, 800, 100, 800, 800, 100, 800, 800, 800>>

innerHeight == 600
innerWidth == 1000
RowHeight == 50
RowPitch == 200
ScrollStep == 1800

Entry(table, n) == table[nodeKind[n]]
Ancestors(n) == Entry(PageAncestors, n)
parentElement(n) == Ancestors(n)[1]

\* parent.getBoundingClientRect() at scroll position sy
Rect(n, sy) ==
    LET top == (n - 1) * RowPitch - sy * ScrollStep
    IN  [top |-> top, bottom |-> top + RowHeight,
         left |-> Entry(PageLeft, n), width |-> Entry(PageWidth, n),
         right |-> Entry(PageLeft, n) + Entry(PageWidth, n)]

shouldSkipElement(element) ==
    \/ element.tagName \in SKIP_TAGS
    \/ element.isContentEditable
    \/ element.translate = "no"
    \/ "llm-translator-status" \in element.id

(***************************************************************************)
(* Priority scorer                                                         *)
(***************************************************************************)
MainIdTokens == {"content", "article", "main-text", "mw-content", "post", "entry"}
MainClassTokens == {"content", "article", "post", "entry", "mw-parser-output", "mw-content"}
SideIdTokens == {"sidebar", "nav", "menu", "footer", "header", "toc", "widget", "prefs", "toolbar"}
SideClassTokens == {"sidebar", "nav", "menu", "footer", "header", "widget", "toc", "infobox",
                    "mw-portlet", "vector-"}

IsMainAncestor(a) ==
    \/ a.tagName \in {"MAIN", "ARTICLE"}
    \/ a.role \in {"main", "article"}
    \/ a.id \cap MainIdTokens # {}
    \/ a.className \cap MainClassTokens # {}

IsSidebarAncestor(a) ==
    \/ a.tagName \in {"NAV", "ASIDE", "FOOTER", "HEADER"}
    \/ a.role \in {"navigation", "complementary", "banner", "contentinfo", "menu"}
    \/ a.id \cap SideIdTokens # {}
    \/ a.className \cap SideClassTokens # {}

TagBonus(tagName) ==
    CASE tagName = "P" -> 80
      [] tagName = "H1" -> 70
      [] tagName = "H2" -> 60
      [] tagName = "H3" -> 50
      [] tagName \in {"H4", "H5", "H6"} -> 40
      [] tagName = "LI" -> 30
      [] tagName \in {"TD", "TH"} -> 20
      [] tagName \in {"BLOCKQUOTE", "FIGCAPTION"} -> 25
      [] tagName = "SPAN" -> 5
      [] tagName = "DIV" -> 5
      [] tagName = "A" -> -10
      [] tagName = "LABEL" -> -30
      [] tagName = "BUTTON" -> -50
      [] OTHER -> 0

LengthBonus(textLength) ==
    IF textLength >= 200 THEN 150
    ELSE IF textLength >= 100 THEN 100
    ELSE IF textLength >= 50 THEN 60
    ELSE IF textLength >= 20 THEN 30
    ELSE -20

\* the viewport bonus is 1000, within the reach of the other four terms
Score_smallViewportBonus(rect, textLength, anc) ==
    LET inViewport == /\ rect.top < innerHeight
                      /\ rect.bottom > 0
                      /\ rect.left < innerWidth
                      /\ rect.right > 0
        p1 == IF inViewport
              THEN 1000 + (IF rect.top >= 0 /\ 2 * rect.top < innerHeight THEN 200 ELSE 0)
              ELSE 0
        p2 == LengthBonus(textLength)
        walked == 1..Min(15, Len(anc))
        inMainContent == \E i \in walked : IsMainAncestor(anc[i])
        inSidebar == \E i \in walked : IsSidebarAncestor(anc[i])
        p3 == IF inMainContent /\ ~inSidebar THEN 500
              ELSE IF inMainContent /\ inSidebar THEN 100
              ELSE IF inSidebar THEN -300
              ELSE 0
        p4 == TagBonus(anc[1].tagName)
        \* |centerX - pageCenter| > innerWidth * 0.35, scaled by 200
        p5 == IF Abs(2 * rect.left + rect.width - innerWidth) * 100 > innerWidth * 70
              THEN -100 ELSE 0
    IN  Max(0, p1 + p2 + p3 + p4 + p5)

\* the body of calculatePriority for a node with a parent: rect is the parent's
\* bounding box, textLength the length of the trimmed text, anc the ancestors
\* (parent first)
Score(rect, textLength, anc) ==
    LET inViewport == /\ rect.top < innerHeight
                      /\ rect.bottom > 0
                      /\ rect.left < innerWidth
                      /\ rect.right > 0
        p1 == IF inViewport
              THEN 10000 + (IF rect.top >= 0 /\ 2 * rect.top < innerHeight THEN 200 ELSE 0)
              ELSE 0
        p2 == LengthBonus(textLength)
        walked == 1..Min(15, Len(anc))
        inMainContent == \E i \in walked : IsMainAncestor(anc[i])
        inSidebar == \E i \in walked : IsSidebarAncestor(anc[i])
        p3 == IF inMainContent /\ ~inSidebar THEN 500
              ELSE IF inMainContent /\ inSidebar THEN 100
              ELSE IF inSidebar THEN -300
              ELSE 0
        p4 == TagBonus(anc[1].tagName)
        \* |centerX - pageCenter| > innerWidth * 0.35, scaled by 200
        p5 == IF Abs(2 * rect.left + rect.width - innerWidth) * 100 > innerWidth * 70
              THEN -100 ELSE 0
    IN  Max(0, p1 + p2 + p3 + p4 + p5)

\* calculatePriority(node) for node n showing text txt at scroll position sy
calculatePriority(n, txt, sy) == Score(Rect(n, sy), Len(Trim(txt)), Ancestors(n))

(***************************************************************************)
(* Array.prototype.sort((a, b) => b.priority - a.priority): stable,        *)
(* descending by priority                                                  *)
(***************************************************************************)
RECURSIVE InsertByPriority(_, _)
InsertByPriority(sorted, item) ==
    IF sorted = <<>> THEN <<item>>
    ELSE IF Head(sorted).priority >= item.priority
         THEN <<Head(sorted)>> \o InsertByPriority(Tail(sorted), item)
         ELSE <<item>> \o sorted

RECURSIVE SortByPriority(_)
SortByPriority(items) ==
    IF items = <<>> THEN <<>>
    ELSE InsertByPriority(SortByPriority(SubSeq(items, 1, Len(items) - 1)), items[Len(items)])

Nodes == 1..domSize
Ids == 0..(Len(textNodeMap) - 1)

\* showStatus(message, isError); the numbers are those the message text contains
Status(msg, isError, percent, applied, total, failed) ==
    [msg |-> msg, isError |-> isError, percent |-> percent, applied |-> applied,
     total |-> total, failed |-> failed]

NoCall == [items |-> <<>>, response |-> <<>>, transport |-> FALSE, dead |-> {},
           applied |-> 0, failed |-> <<>>, written |-> {}, requests |-> 0,
           waits |-> <<>>, retries |-> 0, phase |-> "none", round |-> 0, call |-> 0,
           bad |-> 0]

\* sendResponse(...) of a message handler: which answer, and the fields it carries
Response(kind, showing, hasCache) == [kind |-> kind, showing |-> showing, hasCache |-> hasCache]
NoResponse == Response("none", "", FALSE)

\* locals of translatePage and of the translateBatch call it awaits
RunIdle ==
    [pc |-> "idle", phase |-> "none", batch |-> <<>>, attempt |-> 0, retries |-> 0,
     wait |-> 0, callWaits |-> <<>>, callRequests |-> 0, totalApplied |-> 0, totalProcessed |-> 0,
     totalItems |-> 0, failedItems |-> <<>>, retryAttempts |-> 0, itemsToRetry |-> <<>>,
     i |-> 0, sent |-> <<>>, drained |-> <<>>, roundSent |-> <<>>, calls |-> 0,
     lastCall |-> NoCall, faultsSeen |-> 0, cancelSeen |-> FALSE, restoreSeen |-> FALSE,
     answers |-> 0, afterCancel |-> FALSE]

(***************************************************************************)
(* Node Registry                                                           *)
(***************************************************************************)
\* The registry together with the document text it writes to
Reg(map, set, d) == [map |-> map, set |-> set, dom |-> d]

isNodeProcessed(set, n) == n \in set

HasEntry(map, id) == id >= 0 /\ id < Len(map)

\* replaceTextNode(id, translatedText): TRUE iff the write is made
replaceSucceeds(reg, deadNodes, id) ==
    HasEntry(reg.map, id) /\ reg.map[id + 1].node \notin deadNodes

\* the trailing whitespace of the original is not put back
replaceTextNode_noTrailing(reg, deadNodes, id, translatedText) ==
    IF ~replaceSucceeds(reg, deadNodes, id) THEN reg
    ELSE LET entry == reg.map[id + 1]
         IN  [map |-> [reg.map EXCEPT ![id + 1] =
                          [entry EXCEPT !.translated = TRUE,
                                        !.translatedText = translatedText]],
              set |-> reg.set \cup {entry.node},
              dom |-> [reg.dom EXCEPT ![entry.node] =
                          LeadingSpace(entry.originalText) \o translatedText]]

replaceTextNode(reg, deadNodes, id, translatedText) ==
    IF ~replaceSucceeds(reg, deadNodes, id) THEN reg
    ELSE LET entry == reg.map[id + 1]
             leadingSpace == LeadingSpace(entry.originalText)
             trailingSpace == TrailingSpace(entry.originalText)
         IN  [map |-> [reg.map EXCEPT ![id + 1] =
                          [entry EXCEPT !.translated = TRUE,
                                        !.translatedText = translatedText]],
              set |-> reg.set \cup {entry.node},
              dom |-> [reg.dom EXCEPT ![entry.node] =
                          leadingSpace \o translatedText \o trailingSpace]]

RECURSIVE restoreEntries(_, _, _)
\* the loop of restoreOriginalText over the entries k..last of the Registry
restoreEntries(reg, deadNodes, k) ==
    IF k > Len(reg.map) THEN reg
    ELSE LET entry == reg.map[k]
         IN  IF entry.translated /\ entry.node \notin deadNodes
             THEN restoreEntries([reg EXCEPT !.dom[entry.node] = entry.originalText,
                                             !.set = @ \ {entry.node}],
                                 deadNodes, k + 1)
             ELSE restoreEntries(reg, deadNodes, k + 1)

\* the originals are written back and the translations are forgotten
restoreOriginalText_forgets(reg, deadNodes) ==
    LET restored == restoreEntries(reg, deadNodes, 1)
    IN  [restored EXCEPT !.map = [k \in 1..Len(restored.map) |->
                                     [restored.map[k] EXCEPT !.translated = FALSE,
                                                             !.translatedText = <<>>]]]

\* restoreOriginalText(), the Registry part
restoreOriginalText(reg, deadNodes) == restoreEntries(reg, deadNodes, 1)

\* what restoreCachedTranslations assigns to node.textContent
cachedText(entry) == entry.translatedText

RECURSIVE restoreCachedEntries(_, _, _)
\* the loop of restoreCachedTranslations over the entries k..last of the Registry
restoreCachedEntries(reg, deadNodes, k) ==
    IF k > Len(reg.map) THEN reg
    ELSE LET entry == reg.map[k]
         IN  IF /\ entry.translatedText # <<>>
                /\ entry.originalText # entry.translatedText
                /\ entry.node \notin deadNodes
             THEN restoreCachedEntries([reg EXCEPT !.dom[entry.node] = cachedText(entry),
                                                   !.map[k].translated = TRUE,
                                                   !.set = @ \cup {entry.node}],
                                       deadNodes, k + 1)
             ELSE restoreCachedEntries(reg, deadNodes, k + 1)

\* nothing is written
restoreCachedTranslations_skip(reg, deadNodes) == reg

\* restoreCachedTranslations() when hasTranslationCache is set, the Registry part
restoreCachedTranslations(reg, deadNodes) == restoreCachedEntries(reg, deadNodes, 1)

(***************************************************************************)
(* Text Extractor                                                          *)
(***************************************************************************)
\* acceptNode of the TreeWalker filter
acceptNode(set, d, n, onlyNew) ==
    /\ ~(onlyNew /\ isNodeProcessed(set, n))
    /\ ~shouldSkipElement(parentElement(n))
    /\ isTranslatableText(d[n])
    /\ ~(parentElement(n).display = "none" \/ parentElement(n).visibility = "hidden")

RECURSIVE WalkNodes(_, _, _, _, _)
\* the while loop over walker.nextNode(): acc is [map, set, nextId, items]
WalkNodes(acc, d, sy, nodes, onlyNew) ==
    IF nodes = <<>> THEN acc
    ELSE LET n == Head(nodes)
         IN  IF ~acceptNode(acc.set, d, n, onlyNew)
             THEN WalkNodes(acc, d, sy, Tail(nodes), onlyNew)
             ELSE LET id == acc.nextId
                      item == [id |-> id, text |-> Trim(d[n]),
                               priority |-> calculatePriority(n, d[n], sy)]
                      entry == [node |-> n, originalText |-> d[n],
                                translated |-> FALSE, translatedText |-> <<>>]
                  IN  WalkNodes([map |-> Append(acc.map, entry), set |-> acc.set,
                                 nextId |-> id + 1, items |-> Append(acc.items, item)],
                                d, sy, Tail(nodes), onlyNew)

\* the items are returned in document order
extractTextNodes_unsorted(map, set, nid, d, sy, nodes, onlyNew) ==
    LET start == IF onlyNew
                 THEN [map |-> map, set |-> set, nextId |-> nid, items |-> <<>>]
                 ELSE [map |-> <<>>, set |-> {}, nextId |-> 0, items |-> <<>>]
    IN  WalkNodes(start, d, sy, nodes, onlyNew)

\* extractTextNodes(root, onlyNew); nodes: the text nodes under root in document order
extractTextNodes(map, set, nid, d, sy, nodes, onlyNew) ==
    LET start == IF onlyNew
                 THEN [map |-> map, set |-> set, nextId |-> nid, items |-> <<>>]
                 ELSE [map |-> <<>>, set |-> {}, nextId |-> 0, items |-> <<>>]
        walked == WalkNodes(start, d, sy, nodes, onlyNew)
    IN  [walked EXCEPT !.items = SortByPriority(walked.items)]

\* the test made on a text node found directly in addedNodes
acceptAddedText(set, d, deadNodes, n) ==
    /\ ~isNodeProcessed(set, n)
    /\ isTranslatableText(d[n])
    /\ n \notin deadNodes
    /\ ~shouldSkipElement(parentElement(n))

RECURSIVE extractAdded(_, _, _, _, _)
\* the for loop of extractNewTextNodes; an added node is a text node n or the
\* element that is the parent of text node n; acc is [map, set, nextId, items]
extractAdded(acc, d, sy, deadNodes, addedNodes) ==
    IF addedNodes = <<>> THEN acc
    ELSE LET a == Head(addedNodes)
             n == a.node
         IN  IF a.kind = "text"
             THEN IF acceptAddedText(acc.set, d, deadNodes, n)
                  THEN extractAdded(
                           [map |-> Append(acc.map, [node |-> n, originalText |-> d[n],
                                                     translated |-> FALSE,
                                                     translatedText |-> <<>>]),
                            set |-> acc.set, nextId |-> acc.nextId + 1,
                            items |-> Append(acc.items,
                                             [id |-> acc.nextId, text |-> Trim(d[n]),
                                              priority |-> calculatePriority(n, d[n], sy)])],
                           d, sy, deadNodes, Tail(addedNodes))
                  ELSE extractAdded(acc, d, sy, deadNodes, Tail(addedNodes))
             ELSE extractAdded(
                      WalkNodes(acc, d, sy, IF n \in deadNodes THEN <<>> ELSE <<n>>, TRUE),
                      d, sy, deadNodes, Tail(addedNodes))

\* the Registry, the processed-set and the counter are cleared first
extractNewTextNodes_clears(map, set, nid, d, sy, deadNodes, addedNodes) ==
    LET walked == extractAdded([map |-> <<>>, set |-> {}, nextId |-> 0, items |-> <<>>],
                               d, sy, deadNodes, addedNodes)
    IN  [walked EXCEPT !.items = SortByPriority(walked.items)]

\* the ids of the added nodes start at 0 again
extractNewTextNodes_restarts(map, set, nid, d, sy, deadNodes, addedNodes) ==
    LET walked == extractAdded([map |-> map, set |-> set, nextId |-> 0, items |-> <<>>],
                               d, sy, deadNodes, addedNodes)
    IN  [walked EXCEPT !.items = SortByPriority(walked.items),
                       !.nextId = Max(nid, walked.nextId)]

\* extractNewTextNodes(addedNodes)
extractNewTextNodes(map, set, nid, d, sy, deadNodes, addedNodes) ==
    LET walked == extractAdded([map |-> map, set |-> set, nextId |-> nid, items |-> <<>>],
                               d, sy, deadNodes, addedNodes)
    IN  [walked EXCEPT !.items = SortByPriority(walked.items)]

(***************************************************************************)
(* Translator capability: what a request for items may come back with      *)
(***************************************************************************)
\* the translation the Translator gives for a text
Tr(text) == <<"T">> \o text

RECURSIVE ResponseOf(_, _, _)
\* one response entry per item that is not omitted, in request order
ResponseOf(items, failing, kind) ==
    IF items = <<>> THEN <<>>
    ELSE LET it == Head(items)
             rest == ResponseOf(Tail(items), failing, kind)
         IN  IF it.id \notin failing
             THEN <<[id |-> it.id, text |-> Tr(it.text), error |-> FALSE]>> \o rest
             ELSE IF kind[it.id] = "omit" THEN rest
             ELSE IF kind[it.id] = "err"
             THEN <<[id |-> it.id, text |-> <<>>, error |-> TRUE]>> \o rest
             ELSE <<[id |-> it.id, text |-> <<>>, error |-> FALSE]>> \o rest

FailKinds == {"err", "omit", "empty"}

\* responses without a top-level error in which at most limit items get no
\* translation; kinds and orders are those the Translator at hand produces
Responses(items, limit, kinds, orders) ==
    LET ids == {items[k].id : k \in 1..Len(items)}
    IN  UNION { UNION { {IF rev THEN Reverse(ResponseOf(items, F, kind))
                                ELSE ResponseOf(items, F, kind) : rev \in orders}
                        : kind \in [F -> kinds] }
                : F \in {G \in SUBSET ids : Cardinality(G) <= limit} }

ResponseCost(items, response) ==
    Cardinality({k \in 1..Len(items) :
                   ~\E j \in 1..Len(response) :
                       /\ response[j].id = items[k].id
                       /\ ~response[j].error
                       /\ response[j].text # <<>>})

\* what a Translator that does not keep to the request puts behind its
\* entries: nothing, a second entry for the first item ("dup"), or a
\* translation for an id that is registered but was not asked for ("foreign")
StrayText == <<"T", "T">>
ExtraEntries(items, registered, extras) ==
    {<<>>}
    \cup (IF "dup" \in extras
          THEN {<<[id |-> items[1].id, text |-> StrayText, error |-> FALSE]>>}
          ELSE {})
    \cup (IF "foreign" \in extras
          THEN {<<[id |-> i, text |-> StrayText, error |-> FALSE]>> :
                  i \in registered \ {items[k].id : k \in 1..Len(items)}}
          ELSE {})

\* the entries of a response that answer no item, or an item answered before
StrayCount(items, response) ==
    Cardinality({j \in 1..Len(response) :
                   \/ \A k \in 1..Len(items) : items[k].id # response[j].id
                   \/ \E i \in 1..(j - 1) : response[i].id = response[j].id})

(***************************************************************************)
(* translateBatch: applying a response                                     *)
(***************************************************************************)
\* textItems.find(item => item.id === id), as a sequence of zero or one item
FindItem(textItems, id) ==
    LET hits == {k \in 1..Len(textItems) : textItems[k].id = id}
    IN  IF hits = {} THEN <<>>
        ELSE <<textItems[CHOOSE k \in hits : \A m \in hits : k <= m]>>

RECURSIVE ProcessTranslations_aborts(_, _, _, _)
\* the loop ends at the first write that fails
ProcessTranslations_aborts(acc, deadNodes, textItems, translations) ==
    IF translations = <<>> THEN acc
    ELSE LET t == Head(translations)
             seen == [acc EXCEPT !.receivedIds = @ \cup {t.id}]
         IN  IF ~t.error /\ t.text # <<>>
             THEN IF replaceSucceeds(acc.reg, deadNodes, t.id)
                  THEN ProcessTranslations_aborts(
                           [seen EXCEPT !.reg = replaceTextNode(acc.reg, deadNodes, t.id, t.text),
                                        !.applied = @ + 1,
                                        !.written = @ \cup {t.id}],
                           deadNodes, textItems, Tail(translations))
                  ELSE [seen EXCEPT !.failed = @ \o FindItem(textItems, t.id)]
             ELSE IF t.error
             THEN ProcessTranslations_aborts(
                      [seen EXCEPT !.failed = @ \o FindItem(textItems, t.id)],
                      deadNodes, textItems, Tail(translations))
             ELSE ProcessTranslations_aborts(seen, deadNodes, textItems, Tail(translations))

RECURSIVE ProcessTranslations(_, _, _, _)
\* for (const t of translations): acc is [reg, applied, failed, receivedIds, written]
ProcessTranslations(acc, deadNodes, textItems, translations) ==
    IF translations = <<>> THEN acc
    ELSE LET t == Head(translations)
             seen == [acc EXCEPT !.receivedIds = @ \cup {t.id}]
             next ==
                IF ~t.error /\ t.text # <<>>
                THEN IF replaceSucceeds(acc.reg, deadNodes, t.id)
                     THEN [seen EXCEPT !.reg = replaceTextNode(acc.reg, deadNodes, t.id, t.text),
                                       !.applied = @ + 1,
                                       !.written = @ \cup {t.id}]
                     ELSE [seen EXCEPT !.failed = @ \o FindItem(textItems, t.id)]
                ELSE IF t.error
                THEN [seen EXCEPT !.failed = @ \o FindItem(textItems, t.id)]
                ELSE seen
         \* the loop goes on with the value of next
         IN  CHOOSE rest \in {ProcessTranslations(a, deadNodes, textItems, Tail(translations))
                                : a \in {next}} : TRUE

\* omitted items are not noticed
NotReturned_none(textItems, receivedIds) == <<>>

\* items that were not returned at all, in request order
NotReturned(textItems, receivedIds) ==
    SelectSeq(textItems, LAMBDA item : item.id \notin receivedIds)

\* the body of the try block once a response without top-level error is in
ApplyResponse(reg, deadNodes, textItems, translations) ==
    LET acc == ProcessTranslations([reg |-> reg, applied |-> 0, failed |-> <<>>,
                                    receivedIds |-> {}, written |-> {}],
                                   deadNodes, textItems, translations)
    IN  [acc EXCEPT !.failed = @ \o NotReturned(textItems, acc.receivedIds)]

(***************************************************************************)
(* translatePage: the code between suspension points.  m collects the      *)
(* page-wide variables the run writes and the run's own locals (m.r).      *)
(***************************************************************************)
\* the timer that is pending stays pending
stopAutoTranslate_keepsTimer(m) ==
    [m EXCEPT !.auto = FALSE, !.observer = FALSE, !.pendingNew = <<>>]

stopAutoTranslate(m) ==
    [m EXCEPT !.auto = FALSE, !.observer = FALSE, !.autoTimer = FALSE, !.pendingNew = <<>>]

\* the watcher's variables, as a handler outside translatePage reads and writes them
Watching ==
    [auto |-> autoTranslateEnabled, observer |-> mutationObserver,
     autoTimer |-> autoTranslateDebounceTimer, pendingNew |-> pendingNewNodes]

SetWatching(w) ==
    /\ autoTranslateEnabled' = w.auto
    /\ mutationObserver' = w.observer
    /\ autoTranslateDebounceTimer' = w.autoTimer
    /\ pendingNewNodes' = w.pendingNew

startAutoTranslate(m) ==
    [m EXCEPT !.auto = TRUE, !.observer = TRUE, !.pendingNew = <<>>]

\* one request goes out to the Translator for the batch of the pending call
SendRequest(r) ==
    LET ids == {r.batch[k].id : k \in 1..Len(r.batch)}
    IN  [r EXCEPT !.pc = "await",
                  !.callRequests = @ + 1,
                  !.sent = [k \in 1..Len(r.sent) |->
                               IF (k - 1) \in ids THEN r.sent[k] + 1 ELSE r.sent[k]]]

\* translateBatch(items, ..., retries) up to its first await (items is never empty here)
CallTranslateBatch(m, items, retries) ==
    [m EXCEPT !.r = SendRequest([m.r EXCEPT !.batch = items, !.attempt = 0,
                                            !.retries = retries, !.wait = 0,
                                            !.callWaits = <<>>, !.callRequests = 0,
                                            !.calls = @ + 1,
                                            !.roundSent = IF m.r.phase = "retry"
                                                          THEN @ \o [k \in 1..Len(items) |-> items[k].id]
                                                          ELSE @])]

\* translationCancelled is left as the run found it
Finally_keepsCancelled(m) ==
    [m EXCEPT !.inProgress = FALSE, !.queue = <<>>,
              !.listener = FALSE, !.r.pc = "idle", !.r.wait = 0]

\* the finally block
Finally(m) ==
    [m EXCEPT !.inProgress = FALSE, !.cancelled = FALSE, !.queue = <<>>,
              !.listener = FALSE, !.r.pc = "idle", !.r.wait = 0]

\* completion message, cache flags, auto-translate, then the finally block
Complete(m) ==
    LET r == m.r
        successRate == RoundPercent(r.totalApplied, r.totalItems)
        flagged == IF r.totalApplied > 0
                   THEN [m EXCEPT !.hasCache = TRUE, !.showing = TRUE]
                   ELSE m
        shown == [flagged EXCEPT !.status = Status("done", FALSE, successRate, r.totalApplied,
                                                   r.totalItems, Len(r.failedItems)),
                                 !.r.phase = "completed"]
    IN  Finally(startAutoTranslate(shown))

\* retry rounds go on for as long as something failed
RetryRoundAllowed_unbounded(r, cancelled) == Len(r.failedItems) > 0 /\ ~cancelled

\* the condition of the post-drain retry loop
RetryRoundAllowed(r, cancelled) ==
    Len(r.failedItems) > 0 /\ r.retryAttempts < maxRetries /\ ~cancelled

\* 500 * retryAttempts
RetryDelay(retryAttempts) == backoffBase * retryAttempts

\* head of the while loop of the retry phase, up to the backoff wait
RetryWhile(m) ==
    IF RetryRoundAllowed(m.r, m.cancelled)
    THEN LET n == m.r.retryAttempts + 1
             percent == Min(100, RoundPercent(m.r.totalApplied, m.r.totalItems))
         IN  [m EXCEPT !.r.retryAttempts = n,
                       !.r.phase = "retry",
                       !.r.pc = "retry_wait",
                       !.r.wait = RetryDelay(n),
                       !.status = Status("translating", FALSE, percent, 0, m.r.totalItems, 0)]
    ELSE Complete(m)

\* the for loop does not look at the cancellation flag
RetryBatchAllowed_ignoresCancel(r, cancelled) == r.i < Len(r.itemsToRetry)

\* the condition of the for loop over itemsToRetry
RetryBatchAllowed(r, cancelled) == r.i < Len(r.itemsToRetry) /\ ~cancelled

\* head of the for loop over itemsToRetry
RetryFor(m) ==
    IF RetryBatchAllowed(m.r, m.cancelled)
    THEN CallTranslateBatch(m, Slice(m.r.itemsToRetry, m.r.i, retryBatchSize), 1)
    ELSE RetryWhile(m)

\* if (!translationCancelled) { retry phase, completion } ... finally
AfterDrain(m) == IF ~m.cancelled THEN RetryWhile(m) ELSE Finally(m)

\* the condition of the drain loop
DrainAllowed(queue, cancelled) == Len(queue) > 0 /\ ~cancelled

\* pendingTranslationQueue.splice(0, batchSize): <<removed, remaining>>
SpliceBatch(queue) == <<Front(queue, batchSize), Rest(queue, batchSize)>>

\* head of the drain loop
DrainWhile(m) ==
    IF DrainAllowed(m.queue, m.cancelled)
    THEN LET sp == SpliceBatch(m.queue)
             batch == sp[1]
             processed == m.r.totalProcessed + Len(batch)
             percent == Min(100, RoundPercent(processed, m.r.totalItems))
             taken == [m EXCEPT !.queue = sp[2],
                                !.r.totalProcessed = processed,
                                !.r.drained = Append(@, [batch |-> batch, before |-> m.queue,
                                                         left |-> sp[2]]),
                                !.status = Status("translating", FALSE, percent, 0,
                                                  m.r.totalItems, 0)]
         IN  CallTranslateBatch(taken, batch, defaultRetries)
    ELSE AfterDrain(m)

\* the failed items of a drain batch go back to the end of the pending queue
AfterBatch_requeue(m, result) ==
    LET r == m.r
        counted == [m EXCEPT !.r.totalApplied = @ + result.applied,
                             !.r.failedItems = @ \o result.failed,
                             !.r.lastCall = result,
                             !.r.faultsSeen = @ + result.bad,
                             !.r.answers = @ + (IF result.transport THEN 0 ELSE 1)]
    IN  IF r.phase = "drain"
        THEN IF m.cancelled
             THEN AfterDrain([counted EXCEPT !.status = Status("cancelled", FALSE, 0, 0, 0, 0),
                                             !.r.phase = "cancelled"])
             ELSE DrainWhile([counted EXCEPT !.queue = @ \o result.failed])
        ELSE RetryFor([counted EXCEPT !.r.i = @ + retryBatchSize])

\* what follows "await translateBatch(...)" once it returned result
AfterBatch(m, result) ==
    LET r == m.r
        counted == [m EXCEPT !.r.totalApplied = @ + result.applied,
                             !.r.failedItems = @ \o result.failed,
                             !.r.lastCall = result,
                             !.r.faultsSeen = @ + result.bad,
                             !.r.answers = @ + (IF result.transport THEN 0 ELSE 1)]
    IN  IF r.phase = "drain"
        THEN IF m.cancelled
             THEN AfterDrain([counted EXCEPT !.status = Status("cancelled", FALSE, 0, 0, 0, 0),
                                             !.r.phase = "cancelled"])
             ELSE DrainWhile(counted)
        ELSE RetryFor([counted EXCEPT !.r.i = @ + retryBatchSize])

\* the items that failed are put on the pending queue
AfterWatchBatch_requeue(m, result) ==
    [m EXCEPT !.inProgress = FALSE,
              !.status = Status("new-done", FALSE, 0, 0, 0, 0),
              !.queue = @ \o result.failed,
              !.r.pc = "idle",
              !.r.wait = 0,
              !.r.totalApplied = result.applied,
              !.r.lastCall = result,
              !.r.faultsSeen = @ + result.bad,
              !.r.answers = @ + (IF result.transport THEN 0 ELSE 1)]

\* translatePendingNodes after "await translateBatch(...)": status, then finally
AfterWatchBatch(m, result) ==
    [m EXCEPT !.inProgress = FALSE,
              !.status = Status("new-done", FALSE, 0, 0, 0, 0),
              !.r.pc = "idle",
              !.r.wait = 0,
              !.r.totalApplied = result.applied,
              !.r.lastCall = result,
              !.r.faultsSeen = @ + result.bad,
              !.r.answers = @ + (IF result.transport THEN 0 ELSE 1)]

\* the caller that awaits the translateBatch call goes on
AwaitReturns(m, result) ==
    IF m.r.phase = "watch" THEN AfterWatchBatch(m, result) ELSE AfterBatch(m, result)

\* a start request is never turned away
IsBusy_never(inProgress) == FALSE

\* the test at the top of translatePage
IsBusy(inProgress) == inProgress

\* the cancellation flag is left as the start found it
SeedQueue_keepsCancelled(m, ex) ==
    LET begun == [m EXCEPT !.inProgress = TRUE, !.listener = TRUE,
                           !.r = [RunIdle EXCEPT !.pc = "extracting",
                                                 !.afterCancel = m.cancelled]]
    IN  [m |-> IF Len(ex.items) = 0
               THEN Finally([begun EXCEPT !.status = Status("no-text", TRUE, 0, 0, 0, 0),
                                          !.inProgress = FALSE])
               ELSE DrainWhile([begun EXCEPT
                        !.queue = ex.items,
                        !.r.phase = "drain",
                        !.r.totalItems = Len(ex.items),
                        !.r.sent = [k \in 1..Len(ex.items) |-> 0]]),
         map |-> ex.map, set |-> ex.set, nextId |-> ex.nextId, accepted |-> TRUE,
         items |-> ex.items]

\* translatePage after the extraction: no text found, or the queue is seeded and
\* the drain loop entered (ex is what extractTextNodes returned); afterCancel
\* remembers the cancellation flag the start found
SeedQueue(m, ex) ==
    LET begun == [m EXCEPT !.inProgress = TRUE, !.cancelled = FALSE, !.listener = TRUE,
                           !.r = [RunIdle EXCEPT !.pc = "extracting",
                                                 !.afterCancel = m.cancelled]]
    IN  [m |-> IF Len(ex.items) = 0
               THEN Finally([begun EXCEPT !.status = Status("no-text", TRUE, 0, 0, 0, 0),
                                          !.inProgress = FALSE])
               ELSE DrainWhile([begun EXCEPT
                        !.queue = ex.items,
                        !.r.phase = "drain",
                        !.r.totalItems = Len(ex.items),
                        !.r.sent = [k \in 1..Len(ex.items) |-> 0]]),
         map |-> ex.map, set |-> ex.set, nextId |-> ex.nextId, accepted |-> TRUE,
         items |-> ex.items]

\* translatePage from its first line to its first await (or to its end)
translatePage(m, map, set, nid, d, sy, nodes) ==
    IF IsBusy(m.inProgress)
    THEN [m |-> [m EXCEPT !.status = Status("busy", TRUE, 0, 0, 0, 0)],
          map |-> map, set |-> set, nextId |-> nid, accepted |-> FALSE, items |-> <<>>]
    ELSE SeedQueue(m, extractTextNodes(map, set, nid, d, sy, nodes, FALSE))

(***************************************************************************)
(* recalculatePendingPriorities                                            *)
(***************************************************************************)
\* the for loop: a priority is recomputed when the entry's node is still attached
RepricedItem(item, map, d, sy, deadNodes) ==
    IF HasEntry(map, item.id) /\ map[item.id + 1].node \notin deadNodes
    THEN [item EXCEPT !.priority =
             calculatePriority(map[item.id + 1].node, d[map[item.id + 1].node], sy)]
    ELSE item

\* the priorities are recomputed but the queue is not sorted again
recalculatePendingPriorities_unsorted(queue, map, d, sy, deadNodes) ==
    [k \in 1..Len(queue) |-> RepricedItem(queue[k], map, d, sy, deadNodes)]

recalculatePendingPriorities(queue, map, d, sy, deadNodes) ==
    SortByPriority([k \in 1..Len(queue) |-> RepricedItem(queue[k], map, d, sy, deadNodes)])

(***************************************************************************)
(* Actions                                                                 *)
(***************************************************************************)
Mach(r) ==
    [r |-> run[r], queue |-> pendingTranslationQueue, cancelled |-> translationCancelled,
     inProgress |-> translationInProgress, status |-> status,
     hasCache |-> hasTranslationCache, showing |-> isShowingTranslations,
     auto |-> autoTranslateEnabled, observer |-> mutationObserver,
     pendingNew |-> pendingNewNodes, autoTimer |-> autoTranslateDebounceTimer,
     listener |-> scrollListener]

SetMach(r, m) ==
    /\ run' = [run EXCEPT ![r] = m.r]
    /\ pendingTranslationQueue' = m.queue
    /\ translationCancelled' = m.cancelled
    /\ translationInProgress' = m.inProgress
    /\ status' = m.status
    /\ hasTranslationCache' = m.hasCache
    /\ isShowingTranslations' = m.showing
    /\ autoTranslateEnabled' = m.auto
    /\ mutationObserver' = m.observer
    /\ pendingNewNodes' = m.pendingNew
    /\ autoTranslateDebounceTimer' = m.autoTimer
    /\ scrollListener' = m.listener

\* the text nodes of document.body that are attached, in document order
BodyTextNodes == SelectSeq([n \in 1..domSize |-> n], LAMBDA n : n \notin dead)

\* environment events (a cancel, a scroll, a removed node, a failed request, a
\* response entry that is not a translation) are counted against the budget
Spend(cost) == budget' = budget - cost
Affordable(cost) == cost <= budget

Active(r) == run[r].pc # "idle"

\* the variables after translatePage ran for invocation r with outcome res
StartOutcome(r, res) ==
    /\ res.accepted => starts < MaxStarts
    /\ SetMach(r, res.m)
    /\ textNodeMap' = res.map
    /\ translatedNodeSet' = res.set
    /\ nextId' = res.nextId
    /\ starts' = IF res.accepted THEN starts + 1 ELSE starts
    /\ emitted' = IF res.accepted THEN res.items ELSE emitted
    /\ lastResponse' = Response("started", "", FALSE)

\* onMessage START_TRANSLATION
StartTranslation ==
    LET idle == {r \in Runs : ~Active(r)}
    IN  /\ idle # {}
        /\ LET r == CHOOSE x \in idle : \A y \in idle : x <= y
           IN  StartOutcome(r, translatePage(Mach(r), textNodeMap, translatedNodeSet, nextId,
                                             dom, scrollY, BodyTextNodes))
        /\ UNCHANGED <<domSize, dom, dead, scrollY, scrollDebounceTimer, stub, budget,
                       nodeKind, probe>>

\* onMessage CANCEL_TRANSLATION
CancelTranslation ==
    /\ Affordable(1)
    /\ Spend(1)
    /\ translationCancelled' = TRUE
    /\ pendingTranslationQueue' = <<>>
    /\ SetWatching(stopAutoTranslate(Watching))
    /\ lastResponse' = Response("cancelled", "", FALSE)
    /\ run' = [r \in Procs |-> IF Active(r) THEN [run[r] EXCEPT !.cancelSeen = TRUE]
                                            ELSE run[r]]
    /\ UNCHANGED <<domSize, dom, dead, scrollY, scrollListener, scrollDebounceTimer,
                   textNodeMap, translatedNodeSet, nextId, translationInProgress,
                   hasTranslationCache, isShowingTranslations, status, starts, stub,
                   nodeKind, emitted, probe>>

CallRecord(r, response, transport, acc) ==
    [items |-> run[r].batch, response |-> response, transport |-> transport,
     dead |-> Unwritable, applied |-> acc.applied, failed |-> acc.failed,
     written |-> acc.written, requests |-> run[r].callRequests,
     waits |-> run[r].callWaits, retries |-> run[r].retries,
     phase |-> run[r].phase, round |-> run[r].retryAttempts, call |-> run[r].calls,
     bad |-> IF transport THEN 1
             ELSE ResponseCost(run[r].batch, response) + StrayCount(run[r].batch, response)]

\* the awaited sendMessage resolves with a response that has no top-level error
TranslatorResponds(r) ==
    /\ run[r].pc = "await"
    /\ \E entries \in Responses(run[r].batch, budget, stub.kinds, stub.reversed),
             extra \in ExtraEntries(run[r].batch, Ids, stub.extras) :
          \E response \in {entries \o extra} :
          \E cost \in {ResponseCost(run[r].batch, response)
                          + StrayCount(run[r].batch, response)} :
              /\ Affordable(cost)
              /\ \E acc \in {ApplyResponse(Reg(textNodeMap, translatedNodeSet, dom),
                                            Unwritable, run[r].batch, response)} :
                 \E m \in {AwaitReturns(Mach(r), CallRecord(r, response, FALSE, acc))} :
                     /\ SetMach(r, m)
                     /\ textNodeMap' = acc.reg.map
                     /\ translatedNodeSet' = acc.reg.set
                     /\ dom' = acc.reg.dom
                     /\ Spend(cost)
    /\ UNCHANGED <<domSize, dead, scrollY, scrollDebounceTimer, nextId, starts, stub,
                   nodeKind, lastResponse, emitted, probe>>

\* one attempt more than retries
MoreAttempts_extra(attempt, retries) == attempt < retries

\* if (attempt < retries - 1): another attempt follows
MoreAttempts(attempt, retries) == attempt < retries - 1

\* the same delay before every attempt
BackoffDelay_flat(attempt) == backoffBase

\* 500 * (attempt + 1)
BackoffDelay(attempt) == backoffBase * (attempt + 1)

\* the awaited sendMessage rejects, or resolves with a top-level error
TranslatorFails(r) ==
    /\ run[r].pc = "await"
    /\ Affordable(stub.failCost)
    /\ Spend(stub.failCost)
    /\ IF MoreAttempts(run[r].attempt, run[r].retries)
       THEN /\ run' = [run EXCEPT ![r].pc = "backoff",
                                  ![r].wait = BackoffDelay(run[r].attempt),
                                  ![r].callWaits = Append(@, BackoffDelay(run[r].attempt)),
                                  ![r].faultsSeen = @ + 1]
            /\ UNCHANGED <<pendingTranslationQueue, translationCancelled,
                           translationInProgress, status, hasTranslationCache,
                           isShowingTranslations, autoTranslateEnabled, mutationObserver,
                           pendingNewNodes, autoTranslateDebounceTimer, scrollListener>>
       ELSE \E m \in {AwaitReturns(Mach(r),
                           CallRecord(r, <<>>, TRUE,
                                      [applied |-> 0, failed |-> run[r].batch,
                                       written |-> {}]))} :
                SetMach(r, m)
    /\ UNCHANGED <<domSize, dom, dead, scrollY, scrollDebounceTimer, textNodeMap,
                   translatedNodeSet, nextId, starts, stub, nodeKind, lastResponse,
                   emitted, probe>>

\* the backoff timer inside translateBatch fires: next attempt
BackoffFires(r) ==
    /\ run[r].pc = "backoff"
    /\ run' = [run EXCEPT ![r] = SendRequest([run[r] EXCEPT !.attempt = @ + 1, !.wait = 0])]
    /\ UNCHANGED <<domSize, dom, dead, scrollY, scrollListener, scrollDebounceTimer,
                   textNodeMap, translatedNodeSet, nextId, translationInProgress,
                   translationCancelled, hasTranslationCache, isShowingTranslations,
                   pendingTranslationQueue, autoTranslateEnabled, mutationObserver,
                   pendingNewNodes, autoTranslateDebounceTimer, status, starts, stub, budget,
                   nodeKind, lastResponse, emitted, probe>>

\* the wait before a retry round is over: the round's for loop starts
RetryWaitFires(r) ==
    /\ run[r].pc = "retry_wait"
    /\ \E m \in {Mach(r)} :
       \E after \in {RetryFor([m EXCEPT !.r.itemsToRetry = m.r.failedItems,
                                         !.r.failedItems = <<>>,
                                         !.r.i = 0,
                                         !.r.roundSent = <<>>,
                                         !.r.wait = 0])} :
           SetMach(r, after)
    /\ UNCHANGED <<domSize, dom, dead, scrollY, scrollDebounceTimer, textNodeMap,
                   translatedNodeSet, nextId, starts, stub, budget, nodeKind, lastResponse,
                   emitted, probe>>

\* the user scrolls; onScroll runs if the listener is registered
Scroll ==
    /\ Affordable(1)
    /\ Spend(1)
    /\ \E y \in 0..MaxScroll : y # scrollY /\ scrollY' = y
    /\ scrollDebounceTimer' = (scrollListener \/ scrollDebounceTimer)
    /\ UNCHANGED <<domSize, dom, dead, scrollListener, textNodeMap, translatedNodeSet,
                   nextId, translationInProgress, translationCancelled,
                   hasTranslationCache, isShowingTranslations, pendingTranslationQueue,
                   autoTranslateEnabled, mutationObserver, pendingNewNodes,
                   autoTranslateDebounceTimer, status, run, starts, stub, nodeKind,
                   lastResponse, emitted, probe>>

\* the 100ms timer set by onScroll fires
ScrollTimerFires ==
    /\ scrollDebounceTimer
    /\ scrollDebounceTimer' = FALSE
    /\ pendingTranslationQueue' =
          IF Len(pendingTranslationQueue) > 0
          THEN recalculatePendingPriorities(pendingTranslationQueue, textNodeMap, dom,
                                            scrollY, dead)
          ELSE pendingTranslationQueue
    /\ UNCHANGED <<domSize, dom, dead, scrollY, scrollListener, textNodeMap,
                   translatedNodeSet, nextId, translationInProgress, translationCancelled,
                   hasTranslationCache, isShowingTranslations, autoTranslateEnabled,
                   mutationObserver, pendingNewNodes, autoTranslateDebounceTimer, status,
                   run, starts, stub, budget, nodeKind, lastResponse, emitted, probe>>

\* the page removes a text node: it has no parent element any more, and a
\* later write to it throws or not as Unwritable says
KillNode(n) ==
    /\ n \notin dead
    /\ Cardinality(dead) < MaxDead
    /\ Affordable(1)
    /\ Spend(1)
    /\ dead' = dead \cup {n}
    /\ UNCHANGED <<domSize, dom, scrollY, scrollListener, scrollDebounceTimer, textNodeMap,
                   translatedNodeSet, nextId, translationInProgress, translationCancelled,
                   hasTranslationCache, isShowingTranslations, pendingTranslationQueue,
                   autoTranslateEnabled, mutationObserver, pendingNewNodes,
                   autoTranslateDebounceTimer, status, run, starts, stub, nodeKind,
                   lastResponse, emitted, probe>>

\* every invocation in flight has seen a request that changes what the page shows
NoteRestore(runs) ==
    [r \in Procs |-> IF runs[r].pc # "idle" THEN [runs[r] EXCEPT !.restoreSeen = TRUE]
                                             ELSE runs[r]]

\* the originals are restored but the watcher is left running
RestoreHandler_keepsWatcher(reg, statusMsg, response) ==
    /\ textNodeMap' = reg.map
    /\ translatedNodeSet' = reg.set
    /\ dom' = reg.dom
    /\ isShowingTranslations' = FALSE
    /\ status' = Status(statusMsg, FALSE, 0, 0, 0, 0)
    /\ lastResponse' = response
    /\ run' = NoteRestore(run)
    /\ UNCHANGED <<hasTranslationCache, autoTranslateEnabled, mutationObserver,
                   autoTranslateDebounceTimer, pendingNewNodes>>

\* restoreOriginalText() as called by a message handler that then answers response
RestoreHandler(reg, statusMsg, response) ==
    /\ textNodeMap' = reg.map
    /\ translatedNodeSet' = reg.set
    /\ dom' = reg.dom
    /\ isShowingTranslations' = FALSE
    /\ SetWatching(stopAutoTranslate(Watching))
    /\ status' = Status(statusMsg, FALSE, 0, 0, 0, 0)
    /\ lastResponse' = response
    /\ run' = NoteRestore(run)
    /\ UNCHANGED hasTranslationCache

\* restoreCachedTranslations() as called by the toggle handler
CachedHandler(reg) ==
    /\ textNodeMap' = reg.map
    /\ translatedNodeSet' = reg.set
    /\ dom' = reg.dom
    /\ isShowingTranslations' = TRUE
    /\ status' = Status("restored-translations", FALSE, 0, 0, 0, 0)
    /\ lastResponse' = Response("toggled", "translated", hasTranslationCache)
    /\ run' = NoteRestore(run)
    /\ UNCHANGED <<hasTranslationCache, autoTranslateEnabled, mutationObserver,
                   autoTranslateDebounceTimer, pendingNewNodes>>

\* onMessage RESTORE_ORIGINAL
RestoreOriginal ==
    /\ Affordable(1)
    /\ Spend(1)
    /\ RestoreHandler(restoreOriginalText(Reg(textNodeMap, translatedNodeSet, dom), Unwritable),
                      "restored", Response("restored", "", hasTranslationCache))
    /\ UNCHANGED <<domSize, dead, scrollY, scrollListener, scrollDebounceTimer, nextId,
                   translationInProgress, translationCancelled, pendingTranslationQueue,
                   starts, stub, nodeKind, emitted, probe>>

\* onMessage TOGGLE_TRANSLATION
ToggleTranslation ==
    /\ Affordable(1)
    /\ Spend(1)
    /\ IF isShowingTranslations
       THEN RestoreHandler(restoreOriginalText(Reg(textNodeMap, translatedNodeSet, dom), Unwritable),
                           "original", Response("toggled", "original", hasTranslationCache))
       ELSE IF hasTranslationCache
       THEN CachedHandler(restoreCachedTranslations(Reg(textNodeMap, translatedNodeSet, dom),
                                                    Unwritable))
       ELSE /\ lastResponse' = Response("toggled", "original", FALSE)
            /\ UNCHANGED <<textNodeMap, translatedNodeSet, dom, isShowingTranslations,
                           hasTranslationCache, autoTranslateEnabled, mutationObserver,
                           autoTranslateDebounceTimer, pendingNewNodes, status, run>>
    /\ UNCHANGED <<domSize, dead, scrollY, scrollListener, scrollDebounceTimer, nextId,
                   translationInProgress, translationCancelled, pendingTranslationQueue,
                   starts, stub, nodeKind, emitted, probe>>

\* rows of the page tables that describe the nodes a page script may add, and
\* what the mutation record holds: the text node or the element around it
AddedKinds == {1, 13}
AddedAs == {"text", "element"}

\* mutation.addedNodes of the records one burst delivers for text node n: the
\* node alone, its new parent element alone, the element and then the text put
\* into it, or the node inserted and moved (two records with the same node)
AddedRecords(n, how) ==
    CASE how = "element" -> <<[node |-> n, kind |-> "element"]>>
      [] how = "both" -> <<[node |-> n, kind |-> "element"], [node |-> n, kind |-> "text"]>>
      [] how = "twice" -> <<[node |-> n, kind |-> "text"], [node |-> n, kind |-> "text"]>>
      [] OTHER -> <<[node |-> n, kind |-> "text"]>>

\* the page adds text node domSize + 1, alone (how = "text") or inside a new
\* element (how = "element"), or moves its last text node (how = "moved"); the
\* observer's callback buffers what was added and sets the 500ms timer again
Mutation ==
    /\ Affordable(1)
    /\ Spend(1)
    /\ \E kind \in stub.addedKinds, how \in stub.addedAs :
          \E n \in {IF how = "moved" THEN domSize ELSE domSize + 1} :
              /\ n \in 1..(domSize + 1) \ dead
              /\ domSize' = n
              /\ nodeKind' = IF n > domSize THEN Append(nodeKind, kind) ELSE nodeKind
              /\ dom' = IF n > domSize THEN Append(dom, PageText[kind]) ELSE dom
              /\ IF mutationObserver /\ autoTranslateEnabled
                 THEN /\ pendingNewNodes' = pendingNewNodes \o AddedRecords(n, how)
                      /\ autoTranslateDebounceTimer' = TRUE
                 ELSE UNCHANGED <<pendingNewNodes, autoTranslateDebounceTimer>>
    /\ UNCHANGED <<dead, scrollY, scrollListener, scrollDebounceTimer, textNodeMap,
                   translatedNodeSet, nextId, translationInProgress, translationCancelled,
                   hasTranslationCache, isShowingTranslations, pendingTranslationQueue,
                   autoTranslateEnabled, mutationObserver, status, run, starts, stub,
                   lastResponse, emitted, probe>>

\* translatePendingNodes past its first line, ex being what extractNewTextNodes
\* returned for the buffered nodes
PendingNodesExtracted(ex) ==
    /\ pendingNewNodes' = <<>>
    /\ textNodeMap' = ex.map
    /\ translatedNodeSet' = ex.set
    /\ nextId' = ex.nextId
    /\ emitted' = emitted \o ex.items
    /\ IF Len(ex.items) = 0
       THEN UNCHANGED <<translationInProgress, status, run>>
       ELSE /\ translationInProgress' = TRUE
            /\ status' = Status("new", FALSE, 0, 0, Len(ex.items), 0)
            /\ run' = [run EXCEPT ![Watcher] =
                          SendRequest([RunIdle EXCEPT !.phase = "watch",
                                                      !.batch = ex.items,
                                                      !.retries = defaultRetries,
                                                      !.calls = 1,
                                                      !.totalItems = Len(ex.items),
                                                      !.sent = [k \in 1..ex.nextId |-> 0]])]

\* the fire does not look at translationInProgress
translatePendingNodes_unguarded ==
    /\ autoTranslateDebounceTimer
    /\ autoTranslateDebounceTimer' = FALSE
    /\ IF pendingNewNodes = <<>>
       THEN UNCHANGED <<pendingNewNodes, textNodeMap, translatedNodeSet, nextId, emitted,
                       translationInProgress, status, run>>
       ELSE PendingNodesExtracted(
                extractNewTextNodes(textNodeMap, translatedNodeSet, nextId, dom, scrollY,
                                    dead, pendingNewNodes))
    /\ UNCHANGED <<domSize, dom, dead, scrollY, scrollListener, scrollDebounceTimer,
                   translationCancelled, hasTranslationCache, isShowingTranslations,
                   pendingTranslationQueue, autoTranslateEnabled, mutationObserver, starts,
                   stub, budget, nodeKind, lastResponse, probe>>

\* the watcher's 500ms timer fires: translatePendingNodes()
translatePendingNodes ==
    /\ autoTranslateDebounceTimer
    /\ autoTranslateDebounceTimer' = FALSE
    /\ IF pendingNewNodes = <<>> \/ translationInProgress
       THEN UNCHANGED <<pendingNewNodes, textNodeMap, translatedNodeSet, nextId, emitted,
                       translationInProgress, status, run>>
       ELSE PendingNodesExtracted(
                extractNewTextNodes(textNodeMap, translatedNodeSet, nextId, dom, scrollY,
                                    dead, pendingNewNodes))
    /\ UNCHANGED <<domSize, dom, dead, scrollY, scrollListener, scrollDebounceTimer,
                   translationCancelled, hasTranslationCache, isShowingTranslations,
                   pendingTranslationQueue, autoTranslateEnabled, mutationObserver, starts,
                   stub, budget, nodeKind, lastResponse, probe>>

(***************************************************************************)
(* The priority scorer on its own: inputs drawn from the sets below        *)
(***************************************************************************)
ProbeTops == {-50, -49, 0, 299, 300, 599, 600}
ProbeBoxes == {<<100, 800>>, <<0, 100>>, <<1000, 100>>, <<-100, 100>>}
ProbeLengths == {19, 20, 50, 100, 200}
ProbeTags == {"P", "LABEL", "BUTTON", "EM"}
ProbeContainers == {El("MAIN", {}, {}, ""), El("NAV", {}, {}, ""), El("DIV", {}, {}, ""),
                    El("DIV", {"content"}, {"sidebar"}, "")}

ProbeInputs ==
    [top : ProbeTops, box : ProbeBoxes, textLength : ProbeLengths, tag : ProbeTags,
     container : ProbeContainers]

ProbeRect(in) ==
    [top |-> in.top, bottom |-> in.top + RowHeight, left |-> in.box[1], width |-> in.box[2],
     right |-> in.box[1] + in.box[2]]

\* the score of a node described by in
ProbeScore(in) ==
    Score(ProbeRect(in), in.textLength, <<El(in.tag, {}, {}, ""), in.container, Body>>)

NoProbe == [scored |-> FALSE, in |-> <<>>, priority |-> 0]

\* calculatePriority is called for the node described by probe.in
ScoreNode ==
    /\ ~probe.scored
    /\ probe' = [probe EXCEPT !.scored = TRUE, !.priority = ProbeScore(probe.in)]
    /\ UNCHANGED <<domSize, dom, dead, scrollY, scrollListener, scrollDebounceTimer,
                   textNodeMap, translatedNodeSet, nextId, translationInProgress,
                   translationCancelled, hasTranslationCache, isShowingTranslations,
                   pendingTranslationQueue, autoTranslateEnabled, mutationObserver,
                   pendingNewNodes, autoTranslateDebounceTimer, status, run, starts, stub,
                   budget, nodeKind, lastResponse, emitted>>

(***************************************************************************)
(* Specifications                                                          *)
(***************************************************************************)
\* the first domSize nodes of the page whose nodes are described by rows
InitPage(rows) ==
    /\ nodeKind = SubSeq(rows, 1, domSize)
    /\ dom = [n \in 1..domSize |-> PageText[nodeKind[n]]]
    /\ dead = {}
    /\ scrollY = 0
    /\ scrollListener = FALSE
    /\ scrollDebounceTimer = FALSE
    /\ textNodeMap = <<>>
    /\ translatedNodeSet = {}
    /\ nextId = 0
    /\ translationInProgress = FALSE
    /\ translationCancelled = FALSE
    /\ hasTranslationCache = FALSE
    /\ isShowingTranslations = FALSE
    /\ pendingTranslationQueue = <<>>
    /\ autoTranslateEnabled = FALSE
    /\ mutationObserver = FALSE
    /\ pendingNewNodes = <<>>
    /\ autoTranslateDebounceTimer = FALSE
    /\ status = Status("none", FALSE, 0, 0, 0, 0)
    /\ run = [r \in Procs |-> RunIdle]
    /\ lastResponse = NoResponse
    /\ emitted = <<>>

\* the page of the page tables, rows in order
InitEngine == InitPage([n \in 1..Len(PageAncestors) |-> n]) /\ probe = NoProbe

\* a page whose second and third text nodes are nested below a button and
\* below an element marked translate="no"
WatchPage == <<1, 13, 14, 5>>

\* small pages
Init ==
    /\ domSize \in 0..MaxNodes
    /\ starts = 0
    /\ budget = MaxEvents
    /\ stub = [kinds |-> FailKinds, reversed |-> BOOLEAN, addedKinds |-> {1},
               addedAs |-> {"text"}, writesThrow |-> TRUE, failCost |-> 1, extras |-> {}]
    /\ InitEngine

\* one large page
InitBig ==
    /\ domSize = BigNodes
    /\ starts = MaxStarts - 1
    /\ budget = BigEvents
    /\ stub = [kinds |-> {"omit"}, reversed |-> {FALSE}, addedKinds |-> {1},
               addedAs |-> {"element"}, writesThrow |-> TRUE, failCost |-> 1, extras |-> {}]
    /\ InitEngine

\* a page with nested markup, watched after its first run
InitWatch ==
    /\ domSize \in 1..WatchNodes
    /\ starts = 0
    /\ budget = WatchEvents
    /\ stub \in {[kinds |-> {"omit"}, reversed |-> {FALSE}, addedKinds |-> AddedKinds,
                 addedAs |-> AddedAs, writesThrow |-> w, failCost |-> 1, extras |-> {}] :
                w \in BOOLEAN}
    /\ InitPage(WatchPage)
    /\ probe = NoProbe

\* a short page and a Translator that may be out of reach for as long as it likes
DownPage == <<1, 3>>

InitDown ==
    /\ domSize \in 1..DownNodes
    /\ starts = 0
    /\ budget = DownEvents
    /\ stub = [kinds |-> {"omit"}, reversed |-> {FALSE}, addedKinds |-> {1},
               addedAs |-> {"text"}, writesThrow |-> TRUE, failCost |-> 0, extras |-> {}]
    /\ InitPage(DownPage)
    /\ probe = NoProbe

\* a page with a paragraph and a span that is not displayed, to which the
\* scripts of the page add nodes of both kinds in every way
AddPage == <<1, 15>>
AddedHow == {"text", "element", "both", "twice", "moved"}

InitAdd ==
    /\ domSize \in 1..AddNodes
    /\ starts = 0
    /\ budget = AddEvents
    /\ stub = [kinds |-> {"omit"}, reversed |-> {FALSE}, addedKinds |-> {1, 15},
               addedAs |-> AddedHow, writesThrow |-> TRUE, failCost |-> 1, extras |-> {}]
    /\ InitPage(AddPage)
    /\ probe = NoProbe

\* a short page and a Translator whose responses may hold an entry for the
\* same id twice or for an id that was not in the request
InitStray ==
    /\ domSize \in 1..StrayNodes
    /\ starts = 0
    /\ budget = StrayEvents
    /\ stub = [kinds |-> {"omit"}, reversed |-> {FALSE}, addedKinds |-> {1},
               addedAs |-> {"text"}, writesThrow |-> TRUE, failCost |-> 1,
               extras |-> {"dup", "foreign"}]
    /\ InitPage(DownPage)
    /\ probe = NoProbe

\* no page: the scorer alone
InitScore ==
    /\ domSize = 0
    /\ starts = 0
    /\ budget = 0
    /\ stub = [kinds |-> {}, reversed |-> {}, addedKinds |-> {}, addedAs |-> {},
               writesThrow |-> TRUE, failCost |-> 1, extras |-> {}]
    /\ InitPage(<<>>)
    /\ probe \in {[scored |-> FALSE, in |-> in, priority |-> 0] : in \in ProbeInputs}

Next ==
    \/ StartTranslation
    \/ CancelTranslation
    \/ \E r \in Procs : TranslatorResponds(r)
    \/ \E r \in Procs : TranslatorFails(r)
    \/ \E r \in Procs : BackoffFires(r)
    \/ \E r \in Runs : RetryWaitFires(r)
    \/ Scroll
    \/ ScrollTimerFires
    \/ \E n \in Nodes : KillNode(n)
    \/ RestoreOriginal
    \/ ToggleTranslation
    \/ Mutation
    \/ translatePendingNodes

Spec == Init /\ [][Next]_vars
SpecBig == InitBig /\ [][Next]_vars
SpecWatch == InitWatch /\ [][Next]_vars
SpecScore == InitScore /\ [][ScoreNode]_vars
SpecDown == InitDown /\ [][Next]_vars
SpecAdd == InitAdd /\ [][Next]_vars
SpecStray == InitStray /\ [][Next]_vars

\* the same with fewer events, for what must eventually happen
InitLive ==
    /\ domSize \in 1..DownNodes
    /\ starts = 0
    /\ budget = LiveEvents
    /\ stub = [kinds |-> {"omit"}, reversed |-> {FALSE}, addedKinds |-> {1},
               addedAs |-> {"text"}, writesThrow |-> TRUE, failCost |-> 0, extras |-> {}]
    /\ InitPage(DownPage)
    /\ probe = NoProbe

\* the request or the timer that an invocation awaits: the request returns,
\* with a response or with an error, or the timer fires
Resumes ==
    \/ \E r \in Procs : TranslatorResponds(r) \/ TranslatorFails(r) \/ BackoffFires(r)
    \/ \E r \in Runs : RetryWaitFires(r)

\* every awaited request returns and every awaited timer fires
SpecLive == InitLive /\ [][Next]_vars /\ WF_vars(Resumes)

(***************************************************************************)
(* Properties                                                              *)
(***************************************************************************)
ItemIds(items) == {items[k].id : k \in 1..Len(items)}
IdSeq(items) == [k \in 1..Len(items) |-> items[k].id]
RunEnds(r) == Active(r) /\ run'[r].pc = "idle"

\* C1: at most one full-page run is active; a start request that arrives while
\* translationInProgress is true gets the busy status, starts nothing (also not
\* later, when the active run ends) and leaves the Registry, the id counter, the
\* pending queue and the active run untouched.
C1_SingleFlight ==
    [][ /\ Cardinality({r \in Runs : run'[r].pc # "idle"}) <= 1
        /\ translationInProgress =>
              /\ \A r \in Runs : ~Active(r) => run'[r].pc = "idle"
              /\ (status'.msg = "busy" /\ status' # status) =>
                    /\ status'.isError
                    /\ UNCHANGED <<textNodeMap, translatedNodeSet, nextId, dom,
                                   pendingTranslationQueue, run, starts,
                                   translationInProgress>> ]_vars

\* a start request was turned away while a run had its batch in flight
C1_Witness ==
    /\ status.msg = "busy"
    /\ translationInProgress
    /\ \E r \in Runs : run[r].pc = "await" /\ run[r].totalItems >= 2

\* C2: once a cancel request was handled during a run, the call in flight is
\* left alone by the cancel, no further translateBatch call (drain batch or
\* retry batch) is started by that run, and the pending queue stays empty until
\* the run has ended.
C2_CancelStopsDispatch ==
    [][ \A r \in Runs :
          /\ (Active(r) /\ ~run[r].cancelSeen /\ run'[r].cancelSeen) =>
                /\ run'[r] = [run[r] EXCEPT !.cancelSeen = TRUE]
                /\ pendingTranslationQueue' = <<>>
          /\ (Active(r) /\ run[r].cancelSeen) =>
                /\ run'[r].calls = run[r].calls
                /\ pendingTranslationQueue' = <<>> ]_vars

\* a run of more than one batch was cancelled during its first batch: that batch
\* was applied, the rest of the queue was never sent
C2_Witness ==
    \E r \in Runs :
        /\ ~Active(r)
        /\ run[r].cancelSeen
        /\ run[r].phase = "cancelled"
        /\ run[r].totalItems > batchSize
        /\ run[r].calls = 1
        /\ run[r].lastCall.applied > 0
        /\ run[r].totalProcessed < run[r].totalItems

\* C3: a run that saw a cancel request, or applied nothing, ends without
\* changing hasTranslationCache and isShowingTranslations.
C3_FlagsUntouchedWhenCancelled ==
    [][ \A r \in Runs :
          (RunEnds(r) /\ (run'[r].cancelSeen \/ run'[r].totalApplied = 0)) =>
              UNCHANGED <<hasTranslationCache, isShowingTranslations>> ]_vars

\* what does hold: the flags are set by a run only when it applied something
\* and no cancel was seen before the end of its drain loop
C3_FlagsNeedApplied ==
    [][ \A r \in Runs :
          (RunEnds(r) /\ (run'[r].phase # "completed" \/ run'[r].totalApplied = 0)) =>
              UNCHANGED <<hasTranslationCache, isShowingTranslations>> ]_vars

NodeTranslation(n) ==
    LET orig == Entry(PageText, n)
    IN  LeadingSpace(orig) \o Tr(Trim(orig)) \o TrailingSpace(orig)

OkIds(response) ==
    {response[j].id : j \in {i \in 1..Len(response) :
                                ~response[i].error /\ response[i].text # <<>>}}
ErrIds(response) ==
    {response[j].id : j \in {i \in 1..Len(response) : response[i].error}}
NoDuplicateIds(response) ==
    \A i, j \in 1..Len(response) : response[i].id = response[j].id => i = j

\* C5: when the response has no top-level error, every requested item is
\* classified by its id, whatever the order of the response: applied if its id
\* comes back with text and no error and the write succeeds, failed if its id
\* comes back with an error or does not come back.
C5_ClassifiedById ==
    \A r \in Runs :
        LET c == run[r].lastCall
        IN  (c.phase # "none" /\ ~c.transport) =>
              /\ \A k \in 1..Len(c.items) :
                    LET it == c.items[k]
                        alive == textNodeMap[it.id + 1].node \notin c.dead
                    IN  /\ (it.id \in OkIds(c.response) /\ alive) => it.id \in c.written
                        /\ (it.id \in ErrIds(c.response) \/ it.id \notin ItemIds(c.response))
                              => (it \in Range(c.failed) /\ it.id \notin c.written)
              /\ NoDuplicateIds(c.response) =>
                    /\ c.applied = Cardinality(c.written)
                    /\ c.written = {id \in OkIds(c.response) \cap ItemIds(c.items) :
                                       textNodeMap[id + 1].node \notin c.dead}

\* two items were requested and only the first came back: applied = 1, failed =
\* the second item
C5_Witness ==
    \E r \in Runs :
        LET c == run[r].lastCall
        IN  /\ c.phase = "drain"
            /\ ~c.transport
            /\ Len(c.items) = 2
            /\ c.response = <<[id |-> c.items[1].id, text |-> Tr(c.items[1].text),
                               error |-> FALSE]>>
            /\ c.applied = 1
            /\ c.failed = <<c.items[2]>>

NewCallRecord(r) == run'[r].lastCall # run[r].lastCall /\ run'[r].lastCall.phase # "none"

\* C6: a translateBatch(items, retries = r) call all of whose requests fail
\* (rejection or top-level error) makes exactly r requests, waits 500ms x k
\* between request k and request k + 1 and not after the last one, writes nothing
\* to the Registry or the document, and returns applied = 0 and failed = items.
C6_AllAttemptsFail ==
    [][ \A r \in Runs :
          /\ (run[r].pc = "await" /\ run'[r].pc = "backoff") =>
                /\ run'[r].wait = 500 * run[r].callRequests
                /\ run[r].callRequests < run[r].retries
                /\ UNCHANGED <<textNodeMap, translatedNodeSet, dom>>
          /\ (run[r].pc = "backoff" /\ run'[r].pc # "backoff") =>
                /\ run'[r].pc = "await"
                /\ run'[r].callRequests = run[r].callRequests + 1
                /\ run'[r].batch = run[r].batch
          /\ (NewCallRecord(r) /\ run'[r].lastCall.transport) =>
                LET c == run'[r].lastCall
                IN  /\ run[r].pc = "await"
                    /\ c.items = run[r].batch
                    /\ c.requests = c.retries
                    /\ c.waits = [k \in 1..(c.retries - 1) |-> 500 * k]
                    /\ c.applied = 0
                    /\ c.failed = c.items
                    /\ c.written = {}
                    /\ UNCHANGED <<textNodeMap, translatedNodeSet, dom>> ]_vars

\* a drain call (three attempts) gave up
C6_Witness ==
    \E r \in Runs :
        /\ run[r].lastCall.transport
        /\ run[r].lastCall.retries = 3
        /\ run[r].lastCall.requests = 3
        /\ Len(run[r].lastCall.items) >= 2

\* C7: a response without top-level error ends the translateBatch call, also
\* when items failed: no request for these items follows in the drain phase (they
\* are neither sent again by the call nor put back in the pending queue); they
\* are kept in the failed list and sent again only by the retry phase.
C7_NoRetryInCall ==
    [][ \A r \in Runs :
          /\ (NewCallRecord(r) /\ ~run'[r].lastCall.transport) =>
                LET c == run'[r].lastCall
                IN  /\ run[r].pc = "await"
                    /\ c.requests = run[r].callRequests
                    /\ \A k \in 1..Len(c.items) :
                          run'[r].sent[c.items[k].id + 1] = run[r].sent[c.items[k].id + 1]
                    /\ run'[r].pc \in {"await", "backoff"} => run'[r].calls = c.call + 1
                    /\ \A k \in 1..Len(c.failed) : c.failed[k] \in Range(run'[r].failedItems)
          /\ (run'[r].pc # "idle" /\ run'[r].phase = "drain") =>
                \A k \in 1..Len(run'[r].failedItems) :
                    /\ run'[r].failedItems[k].id \notin ItemIds(run'[r].batch)
                    /\ run'[r].failedItems[k].id \notin ItemIds(pendingTranslationQueue') ]_vars

\* an item that the Translator left out of its response to the drain batch is
\* requested for the second time, by a retry batch
C7_Witness ==
    \E r \in Runs :
        /\ run[r].phase = "retry"
        /\ run[r].pc = "await"
        /\ run[r].retryAttempts = 1
        /\ run[r].totalApplied >= 1
        /\ \A k \in 1..Len(run[r].batch) : run[r].sent[run[r].batch[k].id + 1] = 2

\* C8: the retry phase has at most 2 rounds; round n starts after a wait of
\* 500ms x n, only while something failed; it sends the items that failed in the
\* round before (for round 1: in the drain), each once, in batches of at most 4,
\* one request per batch; what still fails after round 2 is reported as failed
\* and not sent again.
C8_RetryPhase ==
    [][ \A r \in Runs :
          /\ run'[r].retryAttempts <= 2
          /\ run'[r].pc = "retry_wait" =>
                /\ run'[r].wait = 500 * run'[r].retryAttempts
                /\ run'[r].failedItems # <<>>
                /\ run'[r].retryAttempts >= 1
          /\ (run[r].pc = "retry_wait" /\ run'[r].pc # "retry_wait") =>
                /\ run'[r].itemsToRetry = run[r].failedItems
                /\ run'[r].retryAttempts = run[r].retryAttempts
          /\ (run'[r].phase = "retry" /\ run'[r].pc \in {"await", "backoff"}) =>
                /\ run'[r].pc = "await"
                /\ run'[r].retries = 1
                /\ run'[r].i % 4 = 0
                /\ run'[r].batch = SubSeq(run'[r].itemsToRetry, run'[r].i + 1,
                                          Min(run'[r].i + 4, Len(run'[r].itemsToRetry)))
                /\ Len(run'[r].batch) \in 1..4
                /\ run'[r].roundSent = IdSeq(SubSeq(run'[r].itemsToRetry, 1,
                                          Min(run'[r].i + 4, Len(run'[r].itemsToRetry))))
                /\ ItemIds(run'[r].failedItems) \subseteq ItemIds(run'[r].itemsToRetry)
          /\ (run'[r].pc \in {"idle", "retry_wait"} /\ run'[r].retryAttempts >= 1
                /\ ~run'[r].cancelSeen) =>
                /\ run'[r].roundSent = IdSeq(run'[r].itemsToRetry)
                /\ run'[r].retryAttempts >= 2 =>
                      ItemIds(run'[r].failedItems) \subseteq ItemIds(run'[r].itemsToRetry)
          /\ (RunEnds(r) /\ run'[r].phase = "completed" /\ ~run'[r].cancelSeen
                /\ run'[r].failedItems # <<>>) =>
                /\ run'[r].retryAttempts = 2
                /\ status'.msg = "done"
                /\ status'.failed = Len(run'[r].failedItems)
          /\ (~Active(r) /\ starts' = starts) => run'[r].sent = run[r].sent ]_vars

\* the second batch of a retry round over eight failed items is in flight
C8_Witness ==
    \E r \in Runs :
        /\ run[r].phase = "retry"
        /\ run[r].pc = "await"
        /\ Len(run[r].itemsToRetry) = 8
        /\ run[r].i = 4
        /\ Len(run[r].batch) = 4

SortedDescending(items) ==
    \A i, j \in 1..Len(items) : i < j => items[i].priority >= items[j].priority

\* C9: every batch of the drain loop is the first min(8, length) items of the
\* pending queue; when it is taken each of its items has a stored priority at
\* least that of every item left in the queue; no item is in two drain batches.
C9_DrainOrder ==
    \A r \in Runs :
        LET d == run[r].drained
        IN  /\ \A k \in 1..Len(d) :
                  /\ d[k].batch = SubSeq(d[k].before, 1, Min(8, Len(d[k].before)))
                  /\ d[k].left = SubSeq(d[k].before, Min(8, Len(d[k].before)) + 1,
                                        Len(d[k].before))
                  /\ \A i \in 1..Len(d[k].batch) : \A j \in 1..Len(d[k].left) :
                        d[k].batch[i].priority >= d[k].left[j].priority
                  /\ \A i, j \in 1..Len(d[k].batch) :
                        d[k].batch[i].id = d[k].batch[j].id => i = j
            /\ \A k1, k2 \in 1..Len(d) :
                  k1 # k2 => ItemIds(d[k1].batch) \cap ItemIds(d[k2].batch) = {}

\* a first batch of eight was taken from a longer queue whose items do not all
\* have the same priority, and a second batch followed
C9_Witness ==
    \E r \in Runs :
        /\ Len(run[r].drained) = 2
        /\ Len(run[r].drained[1].batch) = 8
        /\ Len(run[r].drained[1].left) >= 2
        /\ run[r].drained[1].batch[1].priority > run[r].drained[1].left[1].priority

\* C10: when the scroll timer fires, the pending queue keeps its items (same
\* ids and texts, none added, lost or doubled), every item's priority is the
\* score of its node at that moment (or the old one if the node is gone), the
\* queue is sorted by descending priority, and nothing else changes: not the
\* batch in flight, the failed list or any other local of the run, nor the
\* Registry.
C10_Reprioritize ==
    [][ (scrollDebounceTimer /\ ~scrollDebounceTimer') =>
          /\ Len(pendingTranslationQueue') = Len(pendingTranslationQueue)
          /\ {<<pendingTranslationQueue'[k].id, pendingTranslationQueue'[k].text>> :
                 k \in 1..Len(pendingTranslationQueue')}
               = {<<pendingTranslationQueue[k].id, pendingTranslationQueue[k].text>> :
                     k \in 1..Len(pendingTranslationQueue)}
          /\ \A i, j \in 1..Len(pendingTranslationQueue') :
                pendingTranslationQueue'[i].id = pendingTranslationQueue'[j].id => i = j
          /\ SortedDescending(pendingTranslationQueue')
          /\ \A k \in 1..Len(pendingTranslationQueue') :
                LET it == pendingTranslationQueue'[k]
                    n == textNodeMap[it.id + 1].node
                IN  IF n \in dead
                    THEN it \in Range(pendingTranslationQueue)
                    ELSE it.priority = calculatePriority(n, dom[n], scrollY)
          /\ UNCHANGED <<run, textNodeMap, translatedNodeSet, dom, nextId,
                         translationInProgress, translationCancelled>> ]_vars

\* after a scroll the two queued items have changed places: the one extracted
\* later is now in front with the higher priority
C10_Witness ==
    /\ translationInProgress
    /\ ~scrollDebounceTimer
    /\ Len(pendingTranslationQueue) >= 2
    /\ pendingTranslationQueue[1].id > pendingTranslationQueue[2].id
    /\ pendingTranslationQueue[1].priority > pendingTranslationQueue[2].priority

\* the step is the handling of a message answered with a response of this kind
\* that starts no run: it alone leaves the page, the scroll position and every
\* invocation in flight as they are
Handled(kind) ==
    /\ budget' = budget - 1
    /\ lastResponse'.kind = kind
    /\ UNCHANGED <<domSize, dead, scrollY, starts>>
    /\ \A r \in Procs : [run'[r] EXCEPT !.restoreSeen = run[r].restoreSeen] = run[r]

NoRequestSent ==
    \A r \in Procs : /\ run'[r].callRequests = run[r].callRequests
                      /\ run'[r].calls = run[r].calls
                      /\ run'[r].sent = run[r].sent
                      /\ run'[r].pc = run[r].pc

WatcherStopped ==
    /\ ~autoTranslateEnabled
    /\ ~mutationObserver
    /\ ~autoTranslateDebounceTimer
    /\ pendingNewNodes = <<>>

\* C11: a toggle request handled while isShowingTranslations is true writes
\* originalText back to every Registry entry that has a translation (and whose
\* node can still be written), sets isShowingTranslations to false, leaves
\* hasTranslationCache as it is, stops the watcher and sends no Translator request.
C11_ToggleToOriginal ==
    [][ (Handled("toggled") /\ isShowingTranslations) =>
          /\ \A k \in 1..Len(textNodeMap) :
                (textNodeMap[k].translated /\ textNodeMap[k].node \notin Unwritable) =>
                    dom'[textNodeMap[k].node] = textNodeMap[k].originalText
          /\ ~isShowingTranslations'
          /\ hasTranslationCache' = hasTranslationCache
          /\ WatcherStopped'
          /\ NoRequestSent
          /\ lastResponse' = Response("toggled", "original", hasTranslationCache) ]_vars

\* after a completed run over two nodes and a node added since, a toggle has put
\* the original text back and stopped the watcher that held the added node
C11_Witness ==
    /\ lastResponse = Response("toggled", "original", TRUE)
    /\ ~isShowingTranslations
    /\ hasTranslationCache
    /\ WatcherStopped
    /\ domSize > Len(textNodeMap)
    /\ Len(textNodeMap) >= 2
    /\ \A k \in 1..Len(textNodeMap) :
          /\ textNodeMap[k].translated
          /\ dom[textNodeMap[k].node] = textNodeMap[k].originalText
          /\ dom[textNodeMap[k].node] # textNodeMap[k].translatedText

\* C12: a toggle request handled while isShowingTranslations is false: with a
\* cache, every entry that holds a translatedText (and whose node can still be
\* written) displays it again, isShowingTranslations becomes true and no
\* Translator request is sent; without a cache nothing changes (no node text,
\* Registry entry, processed-set membership or flag) and the response reports
\* showing = original, hasCache = false.
C12_ToggleFromOriginal ==
    [][ (Handled("toggled") /\ ~isShowingTranslations) =>
          IF hasTranslationCache
          THEN /\ \A k \in 1..Len(textNodeMap) :
                     (textNodeMap[k].translatedText # <<>> /\ textNodeMap[k].node \notin Unwritable) =>
                         Trim(dom'[textNodeMap[k].node]) = textNodeMap[k].translatedText
               /\ isShowingTranslations'
               /\ hasTranslationCache'
               /\ NoRequestSent
               /\ lastResponse' = Response("toggled", "translated", TRUE)
          ELSE /\ lastResponse' = Response("toggled", "original", FALSE)
               /\ UNCHANGED <<dom, textNodeMap, translatedNodeSet, nextId,
                              hasTranslationCache, isShowingTranslations,
                              translationInProgress, translationCancelled,
                              pendingTranslationQueue, autoTranslateEnabled,
                              mutationObserver, pendingNewNodes,
                              autoTranslateDebounceTimer, status, run>> ]_vars

\* the translations of a completed run were hidden and a second toggle shows
\* them again
C12_Witness ==
    /\ lastResponse = Response("toggled", "translated", TRUE)
    /\ isShowingTranslations
    /\ status.msg = "restored-translations"
    /\ Len(textNodeMap) >= 2
    /\ \A k \in 1..Len(textNodeMap) :
          /\ textNodeMap[k].translatedText # <<>>
          /\ Trim(dom[textNodeMap[k].node]) = textNodeMap[k].translatedText
          /\ textNodeMap[k].node \in translatedNodeSet

\* a toggle request was answered on a page that has no cache
C12_NoCacheAnswered ==
    /\ lastResponse = Response("toggled", "original", FALSE)
    /\ ~hasTranslationCache
    /\ domSize >= 2

\* what replaceTextNode writes for the entry: the whitespace around the
\* original, with the translation in between
AppliedText(entry) ==
    LeadingSpace(entry.originalText) \o entry.translatedText \o TrailingSpace(entry.originalText)

\* C13: for every registered node that can still be written and had a
\* translation applied, restoreOriginal followed by restoreCached leaves the
\* node displaying the text that replaceTextNode had written (leading
\* whitespace of originalText + translatedText + trailing whitespace of
\* originalText) and puts the node back in the processed-set.
C13_RoundTrip ==
    [][ (Handled("toggled") /\ ~isShowingTranslations /\ hasTranslationCache) =>
          \A k \in 1..Len(textNodeMap) :
              (textNodeMap[k].translated /\ textNodeMap[k].node \notin Unwritable) =>
                  /\ dom'[textNodeMap[k].node] = AppliedText(textNodeMap[k])
                  /\ textNodeMap[k].node \in translatedNodeSet' ]_vars

\* what does hold: the node is back in the processed-set and displays the
\* translation without the whitespace that surrounded the original
C13_RoundTripTrimmed ==
    [][ (Handled("toggled") /\ ~isShowingTranslations /\ hasTranslationCache) =>
          \A k \in 1..Len(textNodeMap) :
              (textNodeMap[k].translated /\ textNodeMap[k].node \notin Unwritable) =>
                  /\ dom'[textNodeMap[k].node] = Trim(AppliedText(textNodeMap[k]))
                  /\ textNodeMap[k].node \in translatedNodeSet' ]_vars

\* the entries of node n that hold a translation, if n can still be written
TranslatedEntries(n) ==
    {k \in 1..Len(textNodeMap) :
        textNodeMap[k].node = n /\ textNodeMap[k].translated /\ n \notin Unwritable}

\* C14: restoreOriginal (RESTORE_ORIGINAL, or a toggle while translations are
\* shown) writes originalText verbatim to the node of every entry with
\* translated = true (whose node can still be written) and removes those nodes
\* from the processed-set; it changes no entry (translated and translatedText
\* stay, no entry is removed) and not hasTranslationCache; other nodes keep
\* their text and their processed-set membership; RESTORE_ORIGINAL answers
\* {restored: true, hasCache}.
C14_RestoreOriginal ==
    [][ (Handled("restored") \/ (Handled("toggled") /\ isShowingTranslations)) =>
          /\ textNodeMap' = textNodeMap
          /\ hasTranslationCache' = hasTranslationCache
          /\ \A n \in 1..domSize :
                IF TranslatedEntries(n) # {}
                THEN /\ \E k \in TranslatedEntries(n) : dom'[n] = textNodeMap[k].originalText
                     /\ n \notin translatedNodeSet'
                ELSE /\ dom'[n] = dom[n]
                     /\ (n \in translatedNodeSet') = (n \in translatedNodeSet)
          /\ Handled("restored") =>
                lastResponse' = Response("restored", "", hasTranslationCache) ]_vars

\* RESTORE_ORIGINAL was handled on a page with a translated node, now showing
\* its original text with the translation kept in its entry, and a registered
\* node that has no translation
C14_Witness ==
    /\ lastResponse = Response("restored", "", TRUE)
    /\ status.msg = "restored"
    /\ \E k \in 1..Len(textNodeMap) :
          /\ textNodeMap[k].translated
          /\ textNodeMap[k].translatedText # <<>>
          /\ dom[textNodeMap[k].node] = textNodeMap[k].originalText
          /\ textNodeMap[k].originalText # Trim(textNodeMap[k].originalText)
          /\ textNodeMap[k].node \notin translatedNodeSet
    /\ \E k \in 1..Len(textNodeMap) : ~textNodeMap[k].translated

\* the step is a full extraction (a start request that is not turned away)
FullExtraction == starts' # starts

\* the items an extraction step emits
NewlyEmitted ==
    IF FullExtraction THEN emitted' ELSE SubSeq(emitted', Len(emitted) + 1, Len(emitted'))

\* C15: within one epoch (from one full extraction to the next) the ids emitted
\* by full and incremental extraction are distinct and are assigned in
\* increasing order from 0 (a full extraction numbers the nodes 0, 1, ... in
\* document order, an incremental one goes on from the counter); when an item is
\* emitted, Registry[id] exists, the trimmed text of its node is the item's text
\* and its originalText is the node's untrimmed text.
C15_EpochIds ==
    [][ (FullExtraction \/ emitted' # emitted) =>
          LET base == IF FullExtraction THEN 0 ELSE nextId
          IN  /\ ~FullExtraction => SubSeq(emitted', 1, Len(emitted)) = emitted
              /\ ItemIds(NewlyEmitted) = base..(nextId' - 1)
              /\ Len(NewlyEmitted) = nextId' - base
              /\ ItemIds(emitted') = 0..(nextId' - 1)
              /\ \A i, j \in 1..Len(emitted') :
                    emitted'[i].id = emitted'[j].id => i = j
              /\ \A k \in 1..Len(NewlyEmitted) :
                    LET it == NewlyEmitted[k]
                    IN  /\ HasEntry(textNodeMap', it.id)
                        /\ it.text = Trim(dom[textNodeMap'[it.id + 1].node])
                        /\ textNodeMap'[it.id + 1].originalText
                              = dom[textNodeMap'[it.id + 1].node]
              /\ FullExtraction =>
                    \A i, j \in 1..Len(textNodeMap') :
                        i < j => textNodeMap'[i].node < textNodeMap'[j].node ]_vars

\* after a full extraction of two nodes, two nodes added later were extracted
\* in one incremental extraction and got the ids 2 and 3
C15_Witness ==
    /\ Len(emitted) = 4
    /\ nextId = 4
    /\ run[Watcher].pc = "await"
    /\ ItemIds(run[Watcher].batch) = {2, 3}
    /\ \E k \in 1..Len(emitted) :
          emitted[k].id = 3 /\ emitted[k].text # textNodeMap[4].originalText

\* the step is the watcher's debounce firing with a non-empty buffer while no
\* run is in progress: the buffered nodes go through incremental extraction
IncrementalExtraction ==
    /\ autoTranslateDebounceTimer /\ ~autoTranslateDebounceTimer'
    /\ ~translationInProgress
    /\ pendingNewNodes # <<>>
    /\ budget' = budget
    /\ starts' = starts

\* C16: a full extraction leaves nothing of the previous epoch: the Registry
\* holds exactly the nodes it registered, numbered from 0, each untranslated
\* with the node's current text, and the processed-set is empty; an incremental
\* extraction changes and removes no existing entry, removes no node from the
\* processed-set and assigns only ids at or above the counter before the call.
C16_ExtractionFrame ==
    [][ /\ FullExtraction =>
              /\ Len(textNodeMap') = nextId'
              /\ ItemIds(emitted') = 0..(nextId' - 1)
              /\ translatedNodeSet' = {}
              /\ \A k \in 1..Len(textNodeMap') :
                    /\ ~textNodeMap'[k].translated
                    /\ textNodeMap'[k].originalText = dom[textNodeMap'[k].node]
        /\ IncrementalExtraction =>
              /\ Len(textNodeMap') >= Len(textNodeMap)
              /\ \A k \in 1..Len(textNodeMap) : textNodeMap'[k] = textNodeMap[k]
              /\ translatedNodeSet \subseteq translatedNodeSet'
              /\ nextId' >= nextId
              /\ Len(textNodeMap') = nextId'
              /\ \A k \in 1..Len(NewlyEmitted) : NewlyEmitted[k].id >= nextId ]_vars

\* an incremental extraction registered a node next to the translated entries
\* of a finished run
C16_Witness ==
    /\ run[Watcher].pc = "await"
    /\ translatedNodeSet # {}
    /\ \E k \in 1..Len(textNodeMap) : textNodeMap[k].translated
    /\ \A it \in Range(run[Watcher].batch) :
          it.id >= run[1].totalItems /\ ~textNodeMap[it.id + 1].translated

\* a second full extraction replaced a Registry that held translated entries
C16_FullAgain ==
    /\ starts = 2
    /\ hasTranslationCache
    /\ translatedNodeSet = {}
    /\ textNodeMap # <<>>

\* an element above the text node, at any depth, is one that extraction skips
HasSkippedAncestor(n) ==
    \E i \in 1..Len(Ancestors(n)) : shouldSkipElement(Ancestors(n)[i])

\* C17: no text node that has an ancestor element, at any depth, in a skipped
\* tag category, contenteditable, marked translate="no" or being the status
\* element is ever registered or emitted.
C17_NoSkippedAncestor ==
    /\ \A k \in 1..Len(textNodeMap) : ~HasSkippedAncestor(textNodeMap[k].node)
    /\ \A k \in 1..Len(emitted) :
          HasEntry(textNodeMap, emitted[k].id) =>
              ~HasSkippedAncestor(textNodeMap[emitted[k].id + 1].node)

\* what the filter does reject: a node whose parent element is skipped
C17_NoSkippedParent ==
    \A k \in 1..Len(textNodeMap) : ~shouldSkipElement(parentElement(textNodeMap[k].node))

\* the box intersects the viewport rectangle
Intersects(rect) ==
    /\ rect.top < innerHeight /\ rect.bottom > 0
    /\ rect.left < innerWidth /\ rect.right > 0

\* an in-viewport paragraph of at least 200 characters inside <main>
LongMainParagraph(in) ==
    /\ Intersects(ProbeRect(in))
    /\ in.tag = "P" /\ in.textLength >= 200 /\ in.container.tagName = "MAIN"

\* an off-viewport label of fewer than 20 characters inside <nav>
ShortNavLabel(in) ==
    /\ ~Intersects(ProbeRect(in))
    /\ in.tag = "LABEL" /\ in.textLength < 20 /\ in.container.tagName = "NAV"

\* C18: calculatePriority returns a value >= 0, and the same value whenever it
\* is called for the same node in the same layout; a node whose parent
\* intersects the viewport scores strictly higher than every node whose parent
\* does not, in particular a long paragraph in <main> inside the viewport
\* against a short label in <nav> outside it.
C18_Priority ==
    probe.scored =>
        /\ probe.priority >= 0
        /\ probe.priority = ProbeScore(probe.in)
        /\ \A other \in ProbeInputs :
              /\ (Intersects(ProbeRect(probe.in)) /\ ~Intersects(ProbeRect(other)))
                    => probe.priority > ProbeScore(other)
              /\ (LongMainParagraph(probe.in) /\ ShortNavLabel(other))
                    => probe.priority > ProbeScore(other)

\* the lowest score inside the viewport: a short text in a button inside <nav>,
\* far from the centre, in the lower half of the viewport
C18_Witness ==
    /\ probe.scored
    /\ Intersects(ProbeRect(probe.in))
    /\ probe.priority = 9530

\* the highest score outside the viewport: a long paragraph inside <main>
C18_BestOutside ==
    /\ probe.scored
    /\ ~Intersects(ProbeRect(probe.in))
    /\ probe.priority = 730

\* C19: when the watcher's debounce fires with a non-empty buffer and no run in
\* progress, the buffer is emptied and the buffered nodes are extracted
\* incrementally; if items come out, one translateBatch call is made with all
\* and only these items.  While that call lasts translationInProgress is true,
\* and it is false again when the call returns; the call's batch stays the
\* same, no second call follows it (failed items are neither queued nor sent
\* again), the pending queue is left alone, and the watcher is in a call only
\* after such a fire.
C19_WatcherOneShot ==
    [][ /\ IncrementalExtraction =>
              /\ pendingNewNodes' = <<>>
              /\ pendingTranslationQueue' = pendingTranslationQueue
              /\ \A r \in Runs : run'[r] = run[r]
              /\ IF NewlyEmitted = <<>>
                 THEN run' = run /\ ~translationInProgress'
                 ELSE /\ translationInProgress'
                      /\ run'[Watcher].pc = "await"
                      /\ run'[Watcher].batch = NewlyEmitted
                      /\ run'[Watcher].calls = 1
                      /\ run'[Watcher].callRequests = 1
                      /\ ItemIds(NewlyEmitted) \cap ItemIds(emitted) = {}
        /\ Active(Watcher) =>
              /\ translationInProgress
              /\ translationInProgress' = (run'[Watcher].pc # "idle")
              /\ run'[Watcher].batch = run[Watcher].batch
              /\ run'[Watcher].calls = 1
              /\ pendingTranslationQueue' = pendingTranslationQueue
              /\ nextId' = nextId
              /\ \A r \in Runs : run'[r].pc = "idle"
        /\ (~Active(Watcher) /\ ~IncrementalExtraction) => run'[Watcher].pc = "idle"
      ]_vars

\* the watcher's call has returned with an item that failed: nothing is queued,
\* no call is pending and translationInProgress is false again
C19_Witness ==
    /\ run[Watcher].phase = "watch"
    /\ run[Watcher].pc = "idle"
    /\ run[Watcher].lastCall # NoCall
    /\ run[Watcher].lastCall.failed # <<>>
    /\ ~translationInProgress
    /\ pendingTranslationQueue = <<>>

\* the watcher's debounce fires while translationInProgress is set
DeferredFire ==
    /\ autoTranslateDebounceTimer /\ ~autoTranslateDebounceTimer'
    /\ translationInProgress
    /\ pendingNewNodes # <<>>
    /\ budget' = budget

\* nodes are buffered and no debounce is pending: the last fire found
\* translationInProgress set and left them in the buffer
DeferredNodes == pendingNewNodes # <<>> /\ ~autoTranslateDebounceTimer

\* C20: when the watcher's debounce fires while a run is in progress nothing
\* is extracted and no request is made for the buffered nodes, and they stay
\* in the buffer, as long as the watcher is not switched off, until a debounce
\* fire finds no run in progress.
C20_DeferredKept ==
    [][ /\ DeferredFire =>
              UNCHANGED <<pendingNewNodes, textNodeMap, translatedNodeSet, nextId,
                          emitted, run, dom>>
        /\ (DeferredNodes /\ autoTranslateEnabled') =>
              /\ Len(pendingNewNodes') >= Len(pendingNewNodes)
              /\ SubSeq(pendingNewNodes', 1, Len(pendingNewNodes)) = pendingNewNodes
      ]_vars

\* the part that holds: the fire itself extracts nothing, sends nothing and
\* leaves the buffer as it is
C20_DeferredFireIdle ==
    [][ DeferredFire =>
          UNCHANGED <<pendingNewNodes, textNodeMap, translatedNodeSet, nextId,
                      emitted, run, dom>> ]_vars

\* a fire was deferred during a run and the nodes are still buffered
C20_Deferred ==
    /\ DeferredNodes
    /\ translationInProgress
    /\ \E r \in Runs : Active(r)

\* the step handles a message whose handler calls stopAutoTranslate
CallsStopAutoTranslate ==
    \/ Handled("cancelled")
    \/ Handled("restored")
    \/ Handled("toggled") /\ isShowingTranslations

IsTranslation(t) == ~t.error /\ t.text # <<>>

\* the call applied a response in which a translation was for a node whose
\* write throws
WriteFailedIn(c) ==
    /\ c.phase # "none" /\ ~c.transport
    /\ \E j \in 1..Len(c.response) :
          IsTranslation(c.response[j]) /\ textNodeMap[c.response[j].id + 1].node \in c.dead

\* the Registry holds an entry that the loop of restoreOriginalText writes, on
\* a node whose write throws
RestoreWriteFails ==
    \E k \in 1..Len(textNodeMap) :
        textNodeMap[k].translated /\ textNodeMap[k].node \in Unwritable

\* the same for the loop of restoreCachedTranslations
CachedWriteFails ==
    \E k \in 1..Len(textNodeMap) :
        /\ textNodeMap[k].translatedText # <<>>
        /\ textNodeMap[k].originalText # textNodeMap[k].translatedText
        /\ textNodeMap[k].node \in Unwritable

\* C22: a write that fails on one node neither ends the operation nor escapes
\* it.  When translateBatch applies a response, every other translation of the
\* response is written, the item of the failed write is reported as failed
\* with its node and entry untouched, and the call returns its counts; when
\* restoreOriginalText or restoreCachedTranslations meets such a node, every
\* other entry is restored and the handler goes on to its end and answers.
C22_WritesIndependent ==
    [][ /\ \A r \in Procs :
              (NewCallRecord(r) /\ WriteFailedIn(run'[r].lastCall)) =>
                  LET c == run'[r].lastCall
                  IN  /\ \A j \in 1..Len(c.response) :
                            LET t == c.response[j]
                                old == textNodeMap[t.id + 1]
                                new == textNodeMap'[t.id + 1]
                            IN  IsTranslation(t) =>
                                  IF old.node \in c.dead
                                  THEN /\ new = old
                                       /\ dom'[old.node] = dom[old.node]
                                       /\ \E k \in 1..Len(c.failed) : c.failed[k].id = t.id
                                       /\ t.id \notin c.written
                                  ELSE /\ new.translated
                                       /\ new.translatedText = t.text
                                       /\ dom'[new.node] = AppliedText(new)
                                       /\ new.node \in translatedNodeSet'
                                       /\ t.id \in c.written
                      /\ c.applied = Cardinality(c.written)
                      /\ \A k \in 1..Len(c.items) :
                            (c.items[k].id \notin ItemIds(c.response))
                                => c.items[k] \in Range(c.failed)
        /\ ((Handled("restored") \/ (Handled("toggled") /\ isShowingTranslations))
              /\ RestoreWriteFails) =>
              /\ \A k \in 1..Len(textNodeMap) :
                    textNodeMap[k].translated =>
                        IF textNodeMap[k].node \in Unwritable
                        THEN dom'[textNodeMap[k].node] = dom[textNodeMap[k].node]
                        ELSE /\ dom'[textNodeMap[k].node] = textNodeMap[k].originalText
                             /\ textNodeMap[k].node \notin translatedNodeSet'
              /\ ~isShowingTranslations'
              /\ WatcherStopped'
        /\ (Handled("toggled") /\ ~isShowingTranslations /\ hasTranslationCache
              /\ CachedWriteFails) =>
              /\ \A k \in 1..Len(textNodeMap) :
                    (textNodeMap[k].translatedText # <<>>
                       /\ textNodeMap[k].originalText # textNodeMap[k].translatedText) =>
                        IF textNodeMap[k].node \in Unwritable
                        THEN /\ dom'[textNodeMap[k].node] = dom[textNodeMap[k].node]
                             /\ textNodeMap'[k] = textNodeMap[k]
                        ELSE /\ dom'[textNodeMap[k].node] = textNodeMap[k].translatedText
                             /\ textNodeMap'[k].translated
                             /\ textNodeMap[k].node \in translatedNodeSet'
              /\ isShowingTranslations'
              /\ lastResponse' = Response("toggled", "translated", TRUE)
      ]_vars

\* a response brought translations for two nodes; the write of the first one
\* threw, the second one was written
C22_Witness ==
    \E r \in Procs :
        LET c == run[r].lastCall
        IN  /\ WriteFailedIn(c)
            /\ \E i, j \in 1..Len(c.response) :
                  /\ i < j
                  /\ IsTranslation(c.response[i])
                  /\ textNodeMap[c.response[i].id + 1].node \in c.dead
                  /\ c.response[j].id \in c.written

\* restoreOriginalText met a node whose write threw and restored a later one
C22_RestoreGoesOn ==
    /\ lastResponse.kind = "restored"
    /\ \E i, j \in 1..Len(textNodeMap) :
          /\ i < j
          /\ textNodeMap[i].translated /\ textNodeMap[i].node \in Unwritable
          /\ dom[textNodeMap[i].node] # textNodeMap[i].originalText
          /\ textNodeMap[j].translated
          /\ dom[textNodeMap[j].node] = textNodeMap[j].originalText
          /\ textNodeMap[j].node \notin translatedNodeSet

\* C23: replaceTextNode(id, text) for an id that is not in the Registry, or
\* whose node is no longer attached or valid, returns false and leaves the
\* entry (translatedText, translated) and the node's membership of the
\* processed-set as they were.
C23_StaleNodeRejected ==
    [][ \A r \in Procs :
          (NewCallRecord(r) /\ ~run'[r].lastCall.transport) =>
              LET c == run'[r].lastCall
              IN  \A j \in 1..Len(c.response) :
                      LET t == c.response[j]
                      IN  IsTranslation(t) =>
                            IF ~HasEntry(textNodeMap, t.id)
                            THEN t.id \notin c.written /\ textNodeMap' = textNodeMap
                            ELSE textNodeMap[t.id + 1].node \in dead =>
                                   /\ t.id \notin c.written
                                   /\ textNodeMap'[t.id + 1] = textNodeMap[t.id + 1]
                                   /\ (textNodeMap[t.id + 1].node \in translatedNodeSet')
                                        = (textNodeMap[t.id + 1].node \in translatedNodeSet)
      ]_vars

\* what holds: the same for the nodes whose write throws
C23_InvalidNodeRejected ==
    [][ \A r \in Procs :
          (NewCallRecord(r) /\ ~run'[r].lastCall.transport) =>
              LET c == run'[r].lastCall
              IN  \A j \in 1..Len(c.response) :
                      LET t == c.response[j]
                      IN  (IsTranslation(t) /\ HasEntry(textNodeMap, t.id)
                             /\ textNodeMap[t.id + 1].node \in Unwritable) =>
                               /\ t.id \notin c.written
                               /\ textNodeMap'[t.id + 1] = textNodeMap[t.id + 1]
                               /\ (textNodeMap[t.id + 1].node \in translatedNodeSet')
                                    = (textNodeMap[t.id + 1].node \in translatedNodeSet)
      ]_vars

\* the run that ends made requests and every one of them failed at transport
\* level (none was answered), and nobody cancelled it
EndsUnanswered(r) ==
    /\ RunEnds(r)
    /\ run'[r].calls >= 1
    /\ run'[r].answers = 0
    /\ ~run'[r].cancelSeen

\* C24: a run all of whose Translator requests fail at transport level ends
\* with an error status (isError = true) and not with the completion status.
C24_UnreachableIsError ==
    [][ \A r \in Runs :
          EndsUnanswered(r) => (status'.isError /\ status'.msg # "done") ]_vars

\* what the code does: such a run goes through the drain loop and both retry
\* rounds and ends like any other run, with the completion status (0 applied,
\* everything failed, not flagged as an error) and the watcher switched on
C24_UnreachableCompletes ==
    [][ \A r \in Runs :
          EndsUnanswered(r) =>
              /\ run'[r].phase = "completed"
              /\ run'[r].retryAttempts = maxRetries
              /\ status' = Status("done", FALSE, 0, 0, run'[r].totalItems, run'[r].totalItems)
              /\ autoTranslateEnabled'
              /\ ~translationInProgress' ]_vars

RECURSIVE Attempted(_)
\* the number of items in the drain batches taken so far
Attempted(drained) ==
    IF drained = <<>> THEN 0
    ELSE Len(drained[Len(drained)].batch) + Attempted(SubSeq(drained, 1, Len(drained) - 1))

\* p is x / y rounded to the nearest integer, halves upwards
IsRounded(p, x, y) == 2 * p * y - y <= 2 * x /\ 2 * x < 2 * p * y + y

EngineIdle ==
    /\ ~translationInProgress
    /\ ~translationCancelled
    /\ pendingTranslationQueue = <<>>
    /\ ~scrollListener

C26_NothingToTranslate ==
    /\ status.msg = "no-text"
    /\ starts = 2
    /\ hasTranslationCache
    /\ EngineIdle

\* C27: when every awaited request returns and every timer fires, a run that
\* was started ends (translationInProgress becomes false again), and no item
\* is part of more than 5 requests of one run: 3 attempts of its drain batch
\* and one attempt in each of the 2 retry rounds.
C27_Terminates ==
    /\ [](\A r \in Runs : \A k \in 1..Len(run[r].sent) : run[r].sent[k] <= 5)
    /\ (translationInProgress ~> ~translationInProgress)

\* an item was sent five times in one run: three attempts of the drain batch
\* failed, and so did the attempt of the first retry round
C27_Witness ==
    \E r \in Runs :
        /\ run[r].pc = "await"
        /\ run[r].phase = "retry"
        /\ run[r].retryAttempts = maxRetries
        /\ \E k \in 1..Len(run[r].sent) : run[r].sent[k] = 5

\* C28: a START that arrives after a cancel request that found no run active
\* (translationCancelled is still true) is accepted with the flag reset before
\* the first batch is taken, and a run during which no cancel arrives ends
\* completed with every extracted item taken by the drain loop.
C28_IdleCancel ==
    [][ /\ (FullExtraction /\ emitted' # <<>>) => \E r \in Runs : ~Active(r) /\ Active(r)'
        /\ \A r \in Runs :
          /\ (~Active(r) /\ Active(r)') =>
                /\ run'[r].afterCancel = translationCancelled
                /\ ~translationCancelled'
                /\ ~run'[r].cancelSeen
                /\ Len(run'[r].drained) = 1
          /\ (Active(r) /\ ~run'[r].cancelSeen) => ~translationCancelled'
          /\ (RunEnds(r) /\ ~run'[r].cancelSeen) =>
                /\ run'[r].phase = "completed"
                /\ run'[r].totalProcessed = run'[r].totalItems
                /\ Attempted(run'[r].drained) = run'[r].totalItems
      ]_vars

\* a run that was started after an idle cancel has ended completed, with all
\* its items taken, on a page with more than one item
C28_Witness ==
    \E r \in Runs :
        /\ run[r].pc = "idle"
        /\ run[r].afterCancel
        /\ ~run[r].cancelSeen
        /\ run[r].phase = "completed"
        /\ run[r].totalItems > 1
        /\ run[r].totalProcessed = run[r].totalItems

\* the step is a mutation of the page: a text node is added
PageMutates == domSize' = domSize + 1

\* C29: while auto-translate is enabled every observed mutation appends what
\* was added to the buffer and sets the debounce timer again, and a buffered
\* node stays in the buffer until the debounce fire that hands the buffer to
\* the incremental extraction.
C29_BufferedUntilProcessed ==
    [][ (autoTranslateEnabled /\ autoTranslateEnabled') =>
          /\ PageMutates =>
                /\ Len(pendingNewNodes') = Len(pendingNewNodes) + 1
                /\ pendingNewNodes'[Len(pendingNewNodes')].node = domSize'
                /\ autoTranslateDebounceTimer'
          /\ ~IncrementalExtraction =>
                /\ Len(pendingNewNodes') >= Len(pendingNewNodes)
                /\ SubSeq(pendingNewNodes', 1, Len(pendingNewNodes)) = pendingNewNodes
      ]_vars

\* the part that holds: an observed mutation is buffered behind what is
\* buffered already and sets the timer; the buffer is emptied, while the
\* watcher stays on, only by the debounce fire that processes it or by the
\* completion of a run (startAutoTranslate)
C29_BufferedOrRestarted ==
    [][ (autoTranslateEnabled /\ autoTranslateEnabled') =>
          /\ PageMutates =>
                /\ Len(pendingNewNodes') = Len(pendingNewNodes) + 1
                /\ SubSeq(pendingNewNodes', 1, Len(pendingNewNodes)) = pendingNewNodes
                /\ pendingNewNodes'[Len(pendingNewNodes')].node = domSize'
                /\ autoTranslateDebounceTimer'
          /\ (~IncrementalExtraction /\ ~\E r \in Runs : RunEnds(r)) =>
                /\ Len(pendingNewNodes') >= Len(pendingNewNodes)
                /\ SubSeq(pendingNewNodes', 1, Len(pendingNewNodes)) = pendingNewNodes
          /\ IncrementalExtraction => pendingNewNodes' = <<>>
      ]_vars

\* a node was buffered during a run and its debounce is still pending
C29_BufferedDuringRun ==
    /\ autoTranslateEnabled
    /\ pendingNewNodes # <<>>
    /\ autoTranslateDebounceTimer
    /\ \E r \in Runs : Active(r)

\* the invocations that await a Translator request or the backoff before the next
InFlight == {r \in Procs : run[r].pc \in {"await", "backoff"}}

\* the request of invocation r returns with a response
ResponseApplied(r) == run[r].pc = "await" /\ run'[r].answers = run[r].answers + 1

\* C30: a full-page run and a watcher batch are never active together and at
\* most one request is in flight; while either is active translationInProgress
\* is set, no full extraction clears the Registry and the batch in flight
\* consists of items of the current epoch, so a response is applied to the
\* entries that were registered when its items were emitted.
C30_OneAtATime ==
    [][ /\ Cardinality({r \in Procs : Active(r)'}) <= 1
        /\ Cardinality({r \in Procs : run'[r].pc = "await"}) <= 1
        /\ (\E r \in Procs : Active(r)') => translationInProgress'
        /\ (\E r \in Procs : Active(r)) => ~FullExtraction
        /\ (Active(Watcher) /\ status.msg # "busy" /\ status'.msg = "busy") =>
              UNCHANGED <<textNodeMap, translatedNodeSet, nextId, dom, run, emitted>>
        /\ \A r \in Procs :
              /\ r \in InFlight' => \A k \in 1..Len(run'[r].batch) :
                                       run'[r].batch[k] \in Range(emitted')
              /\ ResponseApplied(r) =>
                    /\ starts' = starts
                    /\ \A id \in run'[r].lastCall.written :
                          \E k \in 1..Len(run[r].batch) :
                              /\ run[r].batch[k].id = id
                              /\ HasEntry(textNodeMap, id)
                              /\ Trim(textNodeMap[id + 1].originalText) = run[r].batch[k].text
                              /\ textNodeMap'[id + 1].node = textNodeMap[id + 1].node
      ]_vars

\* a START_TRANSLATION was turned away while the watcher's request was in flight
C30_Witness ==
    /\ run[Watcher].pc = "await"
    /\ status.msg = "busy"
    /\ translationInProgress
    /\ \A r \in Runs : ~Active(r)

\* the parent of text node n is not rendered
Hidden(n) == parentElement(n).display = "none" \/ parentElement(n).visibility = "hidden"

\* C31: a text node whose parent has computed display none or visibility
\* hidden is never registered, by the subtree walk or by the direct evaluation
\* of an individually inserted text node.
C31_HiddenNeverRegistered ==
    \A k \in 1..Len(textNodeMap) : ~Hidden(textNodeMap[k].node)

\* the part that holds: the walks (the full extraction and the walk below an
\* added element) register no node whose parent is not rendered
C31_HiddenNotWalked ==
    [][ /\ FullExtraction => \A k \in 1..Len(textNodeMap') : ~Hidden(textNodeMap'[k].node)
        /\ (IncrementalExtraction
               /\ \A j \in 1..Len(pendingNewNodes) : pendingNewNodes[j].kind = "element") =>
              \A k \in (Len(textNodeMap) + 1)..Len(textNodeMap') :
                  ~Hidden(textNodeMap'[k].node)
      ]_vars

\* the nodes of the Registry entries of the items
NodesOf(items) == [k \in 1..Len(items) |-> textNodeMap[items[k].id + 1].node]

\* C32: within one epoch no live text node is registered under two ids, and
\* no request holds two items for the same node.
C32_OneIdPerNode ==
    /\ \A i, j \in 1..Len(textNodeMap) :
          (textNodeMap[i].node = textNodeMap[j].node /\ textNodeMap[i].node \notin dead)
              => i = j
    /\ \A r \in Procs :
          run[r].pc = "await" =>
              \A i, j \in 1..Len(run[r].batch) :
                  NodesOf(run[r].batch)[i] = NodesOf(run[r].batch)[j] => i = j

\* the part that holds: a full extraction registers every node once
C32_OncePerFullExtraction ==
    [][ FullExtraction =>
          \A i, j \in 1..Len(textNodeMap') :
              textNodeMap'[i].node = textNodeMap'[j].node => i = j ]_vars

\* the step handles a message whose handler calls restoreOriginalText
RestoresOriginal == Handled("restored") \/ (Handled("toggled") /\ isShowingTranslations)

\* C33: what restore-original writes back to a registered node is the text
\* the node had before any translation, also in the epoch of a second run
\* that was started while the page showed the translations of the first.
C33_RestoresPageText ==
    [][ RestoresOriginal =>
          \A k \in 1..Len(textNodeMap) :
              (textNodeMap[k].translated /\ textNodeMap[k].node \notin Unwritable) =>
                  dom'[textNodeMap[k].node] = Entry(PageText, textNodeMap[k].node) ]_vars

\* the part that holds: in the epoch of the first full extraction the text
\* written back is the text of the page
C33_RestoresFirstEpoch ==
    [][ (RestoresOriginal /\ starts = 1) =>
          \A k \in 1..Len(textNodeMap) :
              (textNodeMap[k].translated /\ textNodeMap[k].node \notin Unwritable) =>
                  dom'[textNodeMap[k].node] = Entry(PageText, textNodeMap[k].node) ]_vars

\* the Registry holds a cached translation
CacheHeld == \E k \in 1..Len(textNodeMap) : textNodeMap[k].translatedText # <<>>

\* C34: while no run is in progress hasTranslationCache is true only if the
\* Registry holds an entry with a translatedText, and isShowingTranslations
\* is never true while hasTranslationCache is false.
C34_CacheFlag ==
    /\ (hasTranslationCache /\ ~translationInProgress) => CacheHeld
    /\ isShowingTranslations => hasTranslationCache

\* the part that holds: isShowingTranslations implies hasTranslationCache,
\* and hasTranslationCache, once set, stays set
C34_ShowingNeedsCache ==
    /\ [](isShowingTranslations => hasTranslationCache)
    /\ [][hasTranslationCache => hasTranslationCache']_vars

\* the run shows a progress percentage where the status showed one before
ProgressShownAgain(r) ==
    /\ Active(r) /\ Active(r)'
    /\ status.msg = "translating" /\ status'.msg = "translating"

\* C35: the progress percentage shown never decreases in the course of one
\* run, across the drain loop and the retry phase.
C35_ProgressMonotone ==
    [][ \A r \in Runs : ProgressShownAgain(r) => status'.percent >= status.percent ]_vars

\* the part that holds: the percentage does not decrease within the drain
\* loop, nor from one retry round to the next
C35_MonotoneWithinPhase ==
    [][ \A r \in Runs :
          (ProgressShownAgain(r) /\ run'[r].phase = run[r].phase) =>
              status'.percent >= status.percent ]_vars

\* the run of invocation r ends without having been cancelled
EndsCompleted(r) == RunEnds(r) /\ run'[r].phase = "completed"

\* C36: at non-cancelled completion every extracted item is accounted for
\* exactly once: totalApplied plus the number of items still failed is
\* totalItems, and totalApplied is at most totalItems.
C36_AllAccounted ==
    [][ \A r \in Runs :
          EndsCompleted(r) =>
              /\ run'[r].totalApplied + Len(run'[r].failedItems) = run'[r].totalItems
              /\ run'[r].totalApplied <= run'[r].totalItems ]_vars

\* the part that holds: no item is counted twice, and the reported success
\* rate is at most 100
C36_NoneCountedTwice ==
    [][ \A r \in Runs :
          EndsCompleted(r) =>
              /\ run'[r].totalApplied + Len(run'[r].failedItems) <= run'[r].totalItems
              /\ status'.percent <= 100 ]_vars

\* C37: a translateBatch call changes only the Registry entries, and writes
\* only the nodes, of the ids in its request batch, and its applied count is
\* at most the size of the batch, whatever ids the response contains.
C37_OnlyTheBatch ==
    [][ \A r \in Procs :
          ResponseApplied(r) =>
              /\ \A k \in 1..Len(textNodeMap) :
                    textNodeMap'[k] # textNodeMap[k] => (k - 1) \in ItemIds(run[r].batch)
              /\ \A n \in Nodes :
                    dom'[n] # dom[n] =>
                        \E k \in 1..Len(textNodeMap) :
                            textNodeMap[k].node = n /\ (k - 1) \in ItemIds(run[r].batch)
              /\ run'[r].lastCall.applied <= Len(run[r].batch) ]_vars

\* a call has written the node of an id that was not in its request
C37_ForeignWritten ==
    \E r \in Procs :
        /\ run[r].lastCall # NoCall
        /\ \E id \in run[r].lastCall.written : id \notin ItemIds(run[r].lastCall.items)

\* the last message handled put the original text back (RESTORE_ORIGINAL, or
\* a toggle from Translated): no toggle back and no start since
Restored ==
    \/ lastResponse.kind = "restored"
    \/ lastResponse = Response("toggled", "original", TRUE)

\* C38: after a restore-original has been handled no text is written to any
\* node until the user toggles back or starts a new run, not even by a run
\* or a watcher batch whose request was in flight when it was handled.
C38_NoWriteAfterRestore ==
    [][ (Restored /\ Restored' /\ ~RestoresOriginal) =>
          \A n \in Nodes : dom'[n] = dom[n] ]_vars

\* the part that holds: with no invocation in flight when the restore is
\* handled (the watcher is then off) nothing is written after it
C38_NoWriteWhenIdle ==
    [][ (Restored /\ Restored' /\ ~RestoresOriginal /\ ~autoTranslateEnabled
           /\ \A r \in Procs : ~Active(r)) =>
          /\ \A n \in Nodes : dom'[n] = dom[n]
          /\ \A r \in Procs : ~Active(r)' ]_vars

\* a watcher batch that was in flight when the restore was handled has
\* written a translation since
C38_WatcherWroteAfterRestore ==
    /\ Restored
    /\ run[Watcher].restoreSeen
    /\ run[Watcher].pc = "idle"
    /\ run[Watcher].lastCall # NoCall
    /\ run[Watcher].lastCall.written # {}

\* a registered node displays a translation
TranslationDisplayed ==
    \E k \in 1..Len(textNodeMap) :
        /\ textNodeMap[k].translated
        /\ textNodeMap[k].node \notin dead
        /\ dom[textNodeMap[k].node] # textNodeMap[k].originalText

\* the step is a toggle request that takes the branch that does nothing
ToggleNoOp == Handled("toggled") /\ ~isShowingTranslations /\ ~hasTranslationCache

\* C39: with no run active, the toggle branch that does nothing is taken only
\* in states where no registered node displays a translation.
C39_NoOpOnlyWhenOriginal ==
    [][ (ToggleNoOp /\ ~translationInProgress) => ~TranslationDisplayed ]_vars

\* the part that holds: after a run that completed with something applied a
\* toggle puts the original text back
C39_ToggleAfterCompletion ==
    [][ (Handled("toggled") /\ isShowingTranslations /\ ~translationInProgress) =>
          ~TranslationDisplayed' ]_vars

\* C40: once a cancel request has been handled the run sends no further
\* request to the Translator, neither for a new batch nor as a further attempt
\* of the call in flight.
C40_NoRequestAfterCancel ==
    [][ \A r \in Runs :
          (Active(r) /\ run[r].cancelSeen) => run'[r].sent = run[r].sent ]_vars

\* the part that holds: after the cancel the run starts no further call, and
\* the requests it still sends are attempts of the call that was in flight
C40_OnlyTheCallInFlight ==
    [][ \A r \in Runs :
          (Active(r) /\ run[r].cancelSeen) =>
              /\ run'[r].calls = run[r].calls
              /\ run'[r].sent # run[r].sent =>
                    /\ run'[r].batch = run[r].batch
                    /\ run'[r].callRequests = run[r].callRequests + 1
                    /\ run'[r].callRequests <= run[r].retries ]_vars

\* a call in flight sent a further attempt after the cancel
C40_RetriedAfterCancel ==
    \E r \in Runs :
        /\ Active(r)
        /\ run[r].cancelSeen
        /\ run[r].pc = "await"
        /\ run[r].callRequests > 1
        /\ run[r].callWaits # <<>>

====
